---- MODULE Spec2Model ----
(***************************************************************************)
(* GAEB converter: the format classifier, the structured-markup parser,    *)
(* the heuristic line parser (src/app/lib/gaeb-parser.ts) and the upload   *)
(* pipeline that publishes parsed documents (FileUpload, useGAEBProcessor, *)
(* Home).                                                                  *)
(*                                                                         *)
(* Text is modelled character by character: a string is a sequence of      *)
(* one-character strings, and every regular expression of the source is an *)
(* operator that computes what the JavaScript engine computes for it.      *)
(* Characters outside ASCII are written by their code point.               *)
(***************************************************************************)
EXTENDS Integers, Sequences, FiniteSets, TLC

\* ------------------------------------------------------------------------
\* Characters
\* ------------------------------------------------------------------------
EuroSign == "U+20AC"
Sup2 == "U+00B2"
Sup3 == "U+00B3"
UpperAUml == "U+00C4"
UpperOUml == "U+00D6"
UpperUUml == "U+00DC"
LowerAUml == "U+00E4"
LowerOUml == "U+00F6"
LowerUUml == "U+00FC"

DigitSeq == <<"0", "1", "2", "3", "4", "5", "6", "7", "8", "9">>
UpperSeq == <<"A", "B", "C", "D", "E", "F", "G", "H", "I", "J", "K", "L", "M",
              "N", "O", "P", "Q", "R", "S", "T", "U", "V", "W", "X", "Y", "Z",
              UpperAUml, UpperOUml, UpperUUml>>
LowerSeq == <<"a", "b", "c", "d", "e", "f", "g", "h", "i", "j", "k", "l", "m",
              "n", "o", "p", "q", "r", "s", "t", "u", "v", "w", "x", "y", "z",
              LowerAUml, LowerOUml, LowerUUml>>

Range(f) == {f[i] : i \in DOMAIN f}

DigitChars == Range(DigitSeq)
\* [A-Z] and [a-z]
UpperAZ == {UpperSeq[i] : i \in 1..26}
LowerAZ == {LowerSeq[i] : i \in 1..26}
\* [A-ZÜÄÖ]
UpperUml == UpperAZ \cup {UpperAUml, UpperOUml, UpperUUml}
\* \s (the white space the inputs use)
SpaceChars == {" ", "\t"}
\* \w is [A-Za-z0-9_]
WordChars == UpperAZ \cup LowerAZ \cup DigitChars \cup {"_"}

IsDigit(c) == c \in DigitChars
IsSpace(c) == c \in SpaceChars
IsWord(c) == c \in WordChars
IsSep(c) == c \in {",", "."}

\* String.prototype.toLowerCase, one character
LowerTable == [c \in Range(UpperSeq) |-> LowerSeq[CHOOSE i \in DOMAIN UpperSeq : UpperSeq[i] = c]]
LowerChar(c) == IF c \in DOMAIN LowerTable THEN LowerTable[c] ELSE c
toLowerCase(s) == [i \in 1..Len(s) |-> LowerChar(s[i])]

\* value of a decimal digit
DigitTable == [c \in DigitChars |-> (CHOOSE i \in DOMAIN DigitSeq : DigitSeq[i] = c) - 1]

\* ------------------------------------------------------------------------
\* Strings
\* ------------------------------------------------------------------------
\* the character at index i, or "" outside the string
At(s, i) == IF i >= 1 /\ i <= Len(s) THEN s[i] ELSE ""

\* the first index j >= i whose character is not in chars (Len(s)+1 if none)
SkipWhile(s, i, chars) ==
  CHOOSE j \in i..(Len(s) + 1) :
    /\ (j = Len(s) + 1 \/ s[j] \notin chars)
    /\ \A k \in i..(j - 1) : s[k] \in chars

\* the first index j >= i whose character is in chars (Len(s)+1 if none)
SkipUntil(s, i, chars) ==
  CHOOSE j \in i..(Len(s) + 1) :
    /\ (j = Len(s) + 1 \/ s[j] \in chars)
    /\ \A k \in i..(j - 1) : s[k] \notin chars

\* the least index of the set S, or 0 when S is empty
FirstIndex(S) == IF S = {} THEN 0 ELSE CHOOSE i \in S : \A j \in S : i <= j

\* pat occurs in s at index i, compared exactly
MatchAt(s, i, pat) ==
  /\ i >= 1
  /\ i + Len(pat) - 1 <= Len(s)
  /\ \A k \in 1..Len(pat) : s[i + k - 1] = pat[k]

\* pat occurs in s at index i, compared without regard to letter case (flag i)
MatchAtI(s, i, pat) ==
  /\ i >= 1
  /\ i + Len(pat) - 1 <= Len(s)
  /\ \A k \in 1..Len(pat) : LowerChar(s[i + k - 1]) = LowerChar(pat[k])

\* String.prototype.includes
includes(s, pat) == \E i \in 1..(Len(s) - Len(pat) + 1) : MatchAt(s, i, pat)

\* String.prototype.startsWith
startsWith(s, pat) == MatchAt(s, 1, pat)

\* String.prototype.trimStart / trim
trimStart(s) == SubSeq(s, SkipWhile(s, 1, SpaceChars), Len(s))
TrimEndLen(s) ==
  CHOOSE j \in 0..Len(s) :
    /\ (j = 0 \/ ~IsSpace(s[j]))
    /\ \A k \in (j + 1)..Len(s) : IsSpace(s[k])
trim(s) == trimStart(SubSeq(s, 1, TrimEndLen(s)))

\* \b between index i-1 and index i
WordBoundary(s, i) == IsWord(At(s, i - 1)) # IsWord(At(s, i))

\* the decimal digits of a natural number (template literal `${n}`)
RECURSIVE DecimalString(_)
DecimalString(n) ==
  IF n < 10 THEN <<DigitSeq[n + 1]>>
  ELSE Append(DecimalString(n \div 10), DigitSeq[(n % 10) + 1])

\* the value of a string of decimal digits
RECURSIVE DigitsValue(_)
DigitsValue(s) ==
  IF s = <<>> THEN 0
  ELSE 10 * DigitsValue(SubSeq(s, 1, Len(s) - 1)) + DigitTable[s[Len(s)]]

RECURSIVE Pow10(_)
Pow10(k) == IF k = 0 THEN 1 ELSE 10 * Pow10(k - 1)

\* optional values: undefined / null is None, a value v is Some(v)
None == <<>>
Some(v) == <<v>>
IsSome(o) == o # <<>>
ValueOf(o) == o[1]

\* the first present value of a sequence of optional values, or None
RECURSIVE FirstSome(_)
FirstSome(options) ==
  IF options = <<>> THEN None
  ELSE IF IsSome(options[1]) THEN options[1] ELSE FirstSome(Tail(options))


\* ------------------------------------------------------------------------
\* Numbers: a JavaScript number (none is negative here) is a fraction n/d in
\* lowest terms with d > 0; Infinity is 1/0 and NaN is 0/0.
\* ------------------------------------------------------------------------
RECURSIVE Gcd(_, _)
Gcd(a, b) == IF b = 0 THEN a ELSE Gcd(b, a % b)

NaN == [n |-> 0, d |-> 0]
Infinity == [n |-> 1, d |-> 0]
Number(n, d) ==
  IF d = 0 THEN (IF n = 0 THEN NaN ELSE Infinity)
  ELSE LET g == Gcd(n, d) IN [n |-> n \div g, d |-> d \div g]
IsNaN(v) == v.d = 0 /\ v.n = 0
\* ToBoolean of a number: 0 and NaN are falsy
Truthy(v) == v.n # 0
\* a * b, a / b, a > b
Times(a, b) == Number(a.n * b.n, a.d * b.d)
Divide(a, b) == Number(a.n * b.d, a.d * b.n)
Greater(a, b) == ~IsNaN(a) /\ ~IsNaN(b) /\ a.n * b.d > b.n * a.d
One == [n |-> 1, d |-> 1]
\* Math.max of a non-empty list (NaN if any element is NaN)
MathMax(list) ==
  IF \E i \in DOMAIN list : IsNaN(list[i]) THEN NaN
  ELSE list[CHOOSE i \in DOMAIN list : \A j \in DOMAIN list : ~Greater(list[j], list[i])]

\* parseFloat(n.replace(',', '.')) of a string matched by \d+ or by \d+[,\.]\d+
parseFloatMatch(s) ==
  LET e == SkipWhile(s, 1, DigitChars)
      int == DigitsValue(SubSeq(s, 1, e - 1))
      frac == SubSeq(s, e + 1, Len(s))
  IN  IF e > Len(s) THEN Number(int, 1)
      ELSE Number(int * Pow10(Len(frac)) + DigitsValue(frac), Pow10(Len(frac)))

\* ------------------------------------------------------------------------
\* Words of the source
\* ------------------------------------------------------------------------
W_m2 == <<"m", Sup2>>
W_m3 == <<"m", Sup3>>
W_lfm == <<"l", "f", "m">>
W_kg == <<"k", "g">>
W_t == <<"t">>
W_Stk == <<"S", "t", "k">>
W_psch == <<"p", "s", "c", "h">>
W_St == <<"S", "t">>
W_qm == <<"q", "m">>
W_cbm == <<"c", "b", "m">>
W_to == <<"t", "o">>
W_lfd == <<"l", "f", "d">>
W_Std == <<"S", "t", "d">>
W_h == <<"h">>
W_m == <<"m">>
W_cm == <<"c", "m">>
W_mm == <<"m", "m">>
W_l == <<"l">>
W_kWh == <<"k", "W", "h">>
W_Pfl == <<"P", "f", "l">>
W_bgl == <<"b", "g", "l">>
W_EUR == <<"E", "U", "R">>
W_Euro == <<EuroSign>>
W_DM == <<"D", "M">>

\* the alternatives of the unit patterns, in the order the source writes them
\* looksLikePosition, "typical GAEB units"
LookUnits == <<W_m2, W_m3, W_lfm, W_kg, W_t, W_Stk, W_psch, W_St, W_qm, W_cbm, W_to,
               W_lfd, W_Std, W_h, W_m, W_cm, W_mm, W_l, W_kWh, W_Pfl, W_bgl>>
\* looksLikePosition, "number + unit"
QuantityUnits == <<W_m2, W_m3, W_lfm, W_kg, W_t, W_Stk, W_psch, W_St, W_qm, W_cbm, W_to,
                   W_lfd, W_Std, W_h, W_m>>
\* parsePosition, unitPattern
ParseUnits == LookUnits \o <<W_EUR, W_Euro, W_DM>>

ConstructionTerms ==
  << <<"B", "e", "t", "o", "n">>,
     <<"M", "a", "u", "e", "r", "w", "e", "r", "k">>,
     <<"E", "s", "t", "r", "i", "c", "h">>,
     <<"F", "l", "i", "e", "s", "e", "n">>,
     <<"P", "u", "t", "z">>,
     <<"A", "n", "s", "t", "r", "i", "c", "h">>,
     <<"D", LowerAUml, "m", "m", "u", "n", "g">>,
     <<"I", "n", "s", "t", "a", "l", "l", "a", "t", "i", "o", "n">>,
     <<"M", "o", "n", "t", "a", "g", "e">>,
     <<"L", "i", "e", "f", "e", "r", "u", "n", "g">> >>

SummaryTerms ==
  << <<"g", "e", "s", "a", "m", "t">>,
     <<"s", "u", "m", "m", "e">>,
     <<"t", "o", "t", "a", "l">>,
     <<"z", "w", "i", "s", "c", "h", "e", "n", "s", "u", "m", "m", "e">> >>

W_header == <<"h", "e", "a", "d", "e", "r">>
W_projekt == <<"p", "r", "o", "j", "e", "k", "t">>
W_project == <<"p", "r", "o", "j", "e", "c", "t">>
W_version == <<"v", "e", "r", "s", "i", "o", "n">>
W_date == <<"d", "a", "t", "e">>
W_datum == <<"d", "a", "t", "u", "m">>
W_description == <<"d", "e", "s", "c", "r", "i", "p", "t", "i", "o", "n">>
W_beschreibung == <<"b", "e", "s", "c", "h", "r", "e", "i", "b", "u", "n", "g">>
W_Position == <<"P", "o", "s", "i", "t", "i", "o", "n", " ">>
W_pos == <<"p", "o", "s", "_">>

\* ------------------------------------------------------------------------
\* Regular expressions shared by looksLikePosition and parsePosition
\* ------------------------------------------------------------------------
\* \b(a1|a2|...)\b with flag i: the match at index i is the first alternative
\* that occurs there and is followed by a word boundary; 0 if none
WordAltAt(s, i, alts) ==
  IF ~WordBoundary(s, i) THEN 0
  ELSE FirstIndex({k \in DOMAIN alts :
                     MatchAtI(s, i, alts[k]) /\ WordBoundary(s, i + Len(alts[k]))})

\* the leftmost index at which \b(a1|a2|...)\b matches, 0 if it does not
WordAltStart(s, alts) == FirstIndex({i \in 1..Len(s) : WordAltAt(s, i, alts) # 0})

\* (\.\d+)* from index i, greedy: the index after the last group
RECURSIVE DotGroupsEnd(_, _)
DotGroupsEnd(s, i) ==
  IF At(s, i) = "." /\ IsDigit(At(s, i + 1))
  THEN DotGroupsEnd(s, SkipWhile(s, i + 1, DigitChars))
  ELSE i

\* /^\s*(\d+(?:\.\d+)*[A-Za-z]?)\s+/ : <<start, end>> of group 1, or <<0, 0>>
NumericPositionNumber(s) ==
  LET b == SkipWhile(s, 1, SpaceChars)
      g == DotGroupsEnd(s, SkipWhile(s, b, DigitChars))
      e == IF At(s, g) \in UpperAZ \cup LowerAZ THEN g + 1 ELSE g
  IN  IF IsDigit(At(s, b)) /\ IsSpace(At(s, e)) THEN <<b, e - 1>> ELSE <<0, 0>>

\* /^\s*([A-Z]\d+(?:\.\d+)*)\s+/ : <<start, end>> of group 1, or <<0, 0>>
LetterPositionNumber(s) ==
  LET b == SkipWhile(s, 1, SpaceChars)
      e == DotGroupsEnd(s, SkipWhile(s, b + 1, DigitChars))
  IN  IF At(s, b) \in UpperAZ /\ IsDigit(At(s, b + 1)) /\ IsSpace(At(s, e))
      THEN <<b, e - 1>> ELSE <<0, 0>>

\* /^\s*(\d{2,3})\s+/ : <<start, end>> of group 1, or <<0, 0>>
ShortCodePositionNumber(s) ==
  LET b == SkipWhile(s, 1, SpaceChars)
      e == SkipWhile(s, b, DigitChars)
  IN  IF e - b \in {2, 3} /\ IsSpace(At(s, e)) THEN <<b, e - 1>> ELSE <<0, 0>>

\* /\d+[,\.]\d+\s*(c1|c2|...)/i : the separator indices at which a match lies
AmountBefore(s, currencies) ==
  {p \in 2..Len(s) :
     /\ IsSep(s[p]) /\ IsDigit(s[p - 1]) /\ IsDigit(At(s, p + 1))
     /\ LET w == SkipWhile(s, SkipWhile(s, p + 1, DigitChars), SpaceChars)
        IN  \E k \in DOMAIN currencies : MatchAtI(s, w, currencies[k])}

\* /^\s*\d+\s+[A-ZÜÄÖ]/
NumberThenCapital(s) ==
  LET b == SkipWhile(s, 1, SpaceChars)
      e == SkipWhile(s, b, DigitChars)
      w == SkipWhile(s, e, SpaceChars)
  IN  e > b /\ w > e /\ At(s, w) \in UpperUml

\* /\d+[,\.]?\d*\s+(u1|u2|...)\b/i
NumberThenUnit(s) ==
  \E u \in 2..Len(s) :
    /\ \E k \in DOMAIN QuantityUnits :
         MatchAtI(s, u, QuantityUnits[k]) /\ WordBoundary(s, u + Len(QuantityUnits[k]))
    /\ IsSpace(s[u - 1])
    /\ LET w == CHOOSE j \in 1..(u - 1) :
                  /\ \A k \in j..(u - 1) : IsSpace(s[k])
                  /\ ~IsSpace(At(s, j - 1))
       IN  \/ IsDigit(At(s, w - 1))
           \/ IsSep(At(s, w - 1)) /\ IsDigit(At(s, w - 2))

\* ------------------------------------------------------------------------
\* GAEBParser.looksLikePosition
\* ------------------------------------------------------------------------
looksLikePosition(line) ==
  LET trimmedLine == trim(line) IN
  IF Len(trimmedLine) < 3 THEN FALSE
  ELSE IF includes(toLowerCase(trimmedLine), W_header)
          \/ includes(toLowerCase(trimmedLine), W_projekt) THEN FALSE
  ELSE \/ NumericPositionNumber(line)[1] # 0
       \/ LetterPositionNumber(line)[1] # 0
       \/ WordAltStart(line, LookUnits) # 0
       \/ AmountBefore(line, <<W_Euro, W_EUR, W_DM>>) # {}
       \/ NumberThenCapital(line)
       \/ NumberThenUnit(line)
       \/ WordAltStart(line, ConstructionTerms) # 0

\* ------------------------------------------------------------------------
\* GAEBParser.parsePosition, its parts
\* ------------------------------------------------------------------------
\* positionNumberPatterns, tried in order: the first that matches gives group 1
GroupOne(line, match) ==
  IF match[1] # 0 THEN Some(SubSeq(line, match[1], match[2])) ELSE None

ExtractPositionNumber(line) ==
  FirstSome(<<GroupOne(line, NumericPositionNumber(line)),
              GroupOne(line, LetterPositionNumber(line)),
              GroupOne(line, ShortCodePositionNumber(line))>>)

\* line.match(/(\d+[,\.]\d+)/g) scanning from index i: the matches, left to right
RECURSIVE DecimalMatches(_, _)
DecimalMatches(s, i) ==
  LET b == SkipUntil(s, i, DigitChars)
      e == SkipWhile(s, b, DigitChars)
      f == SkipWhile(s, e + 1, DigitChars)
  IN  IF b > Len(s) THEN <<>>
      ELSE IF IsSep(At(s, e)) /\ IsDigit(At(s, e + 1))
           THEN <<SubSeq(s, b, f - 1)>> \o DecimalMatches(s, f)
           ELSE DecimalMatches(s, e)

\* line.match(/(\d+)/g) scanning from index i
RECURSIVE IntegerMatches(_, _)
IntegerMatches(s, i) ==
  LET b == SkipUntil(s, i, DigitChars)
      e == SkipWhile(s, b, DigitChars)
  IN  IF b > Len(s) THEN <<>>
      ELSE <<SubSeq(s, b, e - 1)>> \o IntegerMatches(s, e)

\* numberPatterns: the decimal matches, and the integer matches only when
\* there is no decimal match; then parseFloat of each
ExtractNumbers(line) ==
  LET decimals == DecimalMatches(line, 1)
      numbers == IF decimals # <<>> THEN decimals ELSE IntegerMatches(line, 1)
  IN  [k \in DOMAIN numbers |-> parseFloatMatch(numbers[k])]

\* unitPattern: unitMatch[0], the matched text as the line spells it
ExtractUnit(line) ==
  LET i == WordAltStart(line, ParseUnits) IN
  IF i = 0 THEN None
  ELSE Some(SubSeq(line, i, i + Len(ParseUnits[WordAltAt(line, i, ParseUnits)]) - 1))

\* group 1 of /(\d+[,\.]\d+)\s*(?:c1|c2)/i at the leftmost match, or None
AmountBeforeCurrency(s, currencies) ==
  LET p == FirstIndex(AmountBefore(s, currencies)) IN
  IF p = 0 THEN None
  ELSE LET b == CHOOSE j \in 1..(p - 1) :
                  /\ \A k \in j..(p - 1) : IsDigit(s[k])
                  /\ ~IsDigit(At(s, j - 1))
       IN  Some(SubSeq(s, b, SkipWhile(s, p + 1, DigitChars) - 1))

\* group 1 of /cur\s*(\d+[,\.]\d+)/i at the leftmost match, or None
AmountAfterCurrency(s, cur) ==
  LET starts == {i \in 1..Len(s) :
                   /\ MatchAtI(s, i, cur)
                   /\ LET b == SkipWhile(s, i + Len(cur), SpaceChars)
                          e == SkipWhile(s, b, DigitChars)
                      IN  e > b /\ IsSep(At(s, e)) /\ IsDigit(At(s, e + 1))}
      i == FirstIndex(starts)
  IN  IF i = 0 THEN None
      ELSE LET b == SkipWhile(s, i + Len(cur), SpaceChars)
               e == SkipWhile(s, b, DigitChars)
           IN  Some(SubSeq(s, b, SkipWhile(s, e + 1, DigitChars) - 1))

\* currencyPatterns, tried in order: parseFloat of group 1 of the first match
FloatOf(match) == IF IsSome(match) THEN Some(parseFloatMatch(ValueOf(match))) ELSE None

ExtractCurrencyAmount(line) ==
  FloatOf(FirstSome(<<AmountBeforeCurrency(line, <<W_Euro, W_EUR>>),
                      AmountBeforeCurrency(line, <<W_DM>>),
                      AmountAfterCurrency(line, W_Euro),
                      AmountAfterCurrency(line, W_EUR)>>))

\* /^\s*\d+\s+[A-ZÜÄÖ][A-ZÜÄÖ\s]+$/
IsSectionTitle(s) ==
  LET b == SkipWhile(s, 1, SpaceChars)
      e == SkipWhile(s, b, DigitChars)
      w == SkipWhile(s, e, SpaceChars)
  IN  /\ e > b /\ w > e /\ At(s, w) \in UpperUml
      /\ w + 1 <= Len(s)
      /\ \A k \in (w + 1)..Len(s) : s[k] \in UpperUml \/ IsSpace(s[k])

\* position type detection
DetectType(trimmedLine, positionNumber, currencyAmount, unit) ==
  IF IsSectionTitle(trimmedLine) THEN "title"
  ELSE IF ~IsSome(positionNumber) /\ Len(trimmedLine) > 80
          /\ ~(IsSome(currencyAmount) /\ Truthy(ValueOf(currencyAmount))) THEN "text"
  ELSE IF IsSome(currencyAmount) \/ (IsSome(unit) /\ ValueOf(unit) # <<>>) THEN "position"
  ELSE IF WordAltStart(trimmedLine, SummaryTerms) # 0 THEN "calculation"
  ELSE "position"

\* /\d+[,\.]\d*\s*(?:€|EUR|DM)/gi at index i: the index after the match that
\* starts there, or 0 when there is none
PriceMatchEnd(s, i) ==
  LET e == SkipWhile(s, i, DigitChars)
      w == SkipWhile(s, SkipWhile(s, e + 1, DigitChars), SpaceChars)
      k == FirstIndex({a \in 1..3 : MatchAtI(s, w, <<W_Euro, W_EUR, W_DM>>[a])})
  IN  IF e > i /\ IsSep(At(s, e)) /\ k # 0
      THEN w + Len(<<W_Euro, W_EUR, W_DM>>[k]) ELSE 0

\* title.replace(pricePattern, '') from index i
RECURSIVE RemovePrices(_, _)
RemovePrices(s, i) ==
  LET p == FirstIndex({k \in i..Len(s) : PriceMatchEnd(s, k) # 0}) IN
  IF p = 0 THEN SubSeq(s, i, Len(s))
  ELSE SubSeq(s, i, p - 1) \o RemovePrices(s, PriceMatchEnd(s, p))

\* /\d+[,\.]?\d*\s*<unit>/gi at index i: the index after the match that starts
\* there, or 0 when there is none
QuantityMatchEnd(s, i, unit) ==
  LET e == SkipWhile(s, i, DigitChars)
      f == IF IsSep(At(s, e)) THEN e + 1 ELSE e
      w == SkipWhile(s, SkipWhile(s, f, DigitChars), SpaceChars)
  IN  IF e > i /\ MatchAtI(s, w, unit) THEN w + Len(unit) ELSE 0

\* title.replace(quantityPattern, '') from index i
RECURSIVE RemoveQuantities(_, _, _)
RemoveQuantities(s, i, unit) ==
  LET p == FirstIndex({k \in i..Len(s) : QuantityMatchEnd(s, k, unit) # 0}) IN
  IF p = 0 THEN SubSeq(s, i, Len(s))
  ELSE SubSeq(s, i, p - 1) \o RemoveQuantities(s, QuantityMatchEnd(s, p, unit), unit)

\* title.replace(/\s+/g, ' ') from index i
RECURSIVE CollapseSpaces(_, _)
CollapseSpaces(s, i) ==
  LET p == FirstIndex({k \in i..Len(s) : IsSpace(s[k])}) IN
  IF p = 0 THEN SubSeq(s, i, Len(s))
  ELSE SubSeq(s, i, p - 1) \o <<" ">> \o CollapseSpaces(s, SkipWhile(s, p, SpaceChars))

\* title.replace(new RegExp(`^\\s*${escaped positionNumber}\\s*`), '')
RemovePositionNumber(title, positionNumber) ==
  LET b == SkipWhile(title, 1, SpaceChars) IN
  IF MatchAt(title, b, positionNumber)
  THEN SubSeq(title, SkipWhile(title, b + Len(positionNumber), SpaceChars), Len(title))
  ELSE title

\* trimmedLine.replace(/^\d+[\.\s]*/, '')
RemoveLeadingNumber(s) ==
  LET e == SkipWhile(s, 1, DigitChars) IN
  IF e > 1 THEN SubSeq(s, SkipWhile(s, e, {"."} \cup SpaceChars), Len(s))
  ELSE s

IsCurrencyUnit(unit) == unit = W_Euro \/ unit = W_EUR \/ unit = W_DM

\* title extraction
\* the steps of the title clean-up
WithoutPositionNumber(title, positionNumber) ==
  IF IsSome(positionNumber) /\ ValueOf(positionNumber) # <<>>
  THEN RemovePositionNumber(title, ValueOf(positionNumber)) ELSE title

WithoutPrices(title, currencyAmount) ==
  IF IsSome(currencyAmount) /\ Truthy(ValueOf(currencyAmount))
  THEN RemovePrices(title, 1) ELSE title

WithoutQuantities(title, unit) ==
  IF IsSome(unit) /\ ValueOf(unit) # <<>> /\ ~IsCurrencyUnit(ValueOf(unit))
  THEN RemoveQuantities(title, 1, ValueOf(unit)) ELSE title

\* TitleOrFallback without the fallbacks
TitleWithoutFallback(title, cleaned, index) == title

\* the fallbacks for a title shorter than 3 characters
TitleOrFallback(title, cleaned, index) ==
  IF Len(title) < 3
  THEN (IF cleaned # <<>> THEN cleaned ELSE W_Position \o DecimalString(index + 1))
  ELSE title

ExtractTitle(trimmedLine, index, positionNumber, currencyAmount, unit) ==
  TitleOrFallback(
    trim(CollapseSpaces(
      WithoutQuantities(
        WithoutPrices(WithoutPositionNumber(trimmedLine, positionNumber), currencyAmount),
        unit), 1)),
    trim(RemoveLeadingNumber(trimmedLine)),
    index)

\* the number of "." in s
CountDots(s) == Cardinality({i \in DOMAIN s : s[i] = "."})

\* hierarchy level from indentation and numbering
DetermineLevel(line, positionNumber) ==
  LET leadingSpaces == Len(line) - Len(trimStart(line))
      level == leadingSpaces \div 4
      dots == IF IsSome(positionNumber) THEN CountDots(ValueOf(positionNumber)) ELSE 0
  IN  IF IsSome(positionNumber) /\ ValueOf(positionNumber) # <<>> /\ dots > level
      THEN dots ELSE level

\* look ahead for a description in the next two lines (currentIndex counts from 1)
DescriptionAt(allLines, i) == IF i = 0 THEN <<>> ELSE trim(allLines[i])

\* LookAheadDescription that looks at the next line only
LookAheadOneLine(allLines, currentIndex) ==
  DescriptionAt(allLines,
                FirstIndex({i \in (currentIndex + 1)..(currentIndex + 1) :
                              /\ i <= Len(allLines)
                              /\ allLines[i] # <<>>
                              /\ ~looksLikePosition(allLines[i])
                              /\ Len(trim(allLines[i])) > 10}))

LookAheadDescription(allLines, currentIndex) ==
  DescriptionAt(allLines,
                FirstIndex({i \in (currentIndex + 1)..(currentIndex + 2) :
                              /\ i <= Len(allLines)
                              /\ allLines[i] # <<>>
                              /\ ~looksLikePosition(allLines[i])
                              /\ Len(trim(allLines[i])) > 10}))

\* quantity and pricing: [quantity, unitPrice, totalPrice]
DeterminePricing(type, cleanNumbers, currencyAmount) ==
  LET hasCurrency == IsSome(currencyAmount) /\ Truthy(ValueOf(currencyAmount))
      nothing == [quantity |-> None, unitPrice |-> None, totalPrice |-> None]
  IN  IF type = "position" /\ Len(cleanNumbers) > 0
      THEN IF hasCurrency /\ Len(cleanNumbers) = 1
           THEN [quantity |-> Some(cleanNumbers[1]),
                 unitPrice |-> currencyAmount,
                 totalPrice |-> Some(Times(cleanNumbers[1], ValueOf(currencyAmount)))]
           ELSE IF hasCurrency /\ Len(cleanNumbers) >= 2
           THEN [quantity |-> Some(cleanNumbers[1]),
                 unitPrice |-> currencyAmount,
                 totalPrice |-> Some(cleanNumbers[2])]
           ELSE IF Len(cleanNumbers) >= 2 /\ ~hasCurrency
           THEN LET largerNumber == MathMax(Tail(cleanNumbers)) IN
                IF Greater(largerNumber, One)
                THEN [quantity |-> Some(cleanNumbers[1]),
                      unitPrice |-> Some(Divide(largerNumber, cleanNumbers[1])),
                      totalPrice |-> Some(largerNumber)]
                ELSE [nothing EXCEPT !.quantity = Some(cleanNumbers[1])]
           ELSE IF Len(cleanNumbers) = 1 /\ ~hasCurrency
           THEN [nothing EXCEPT !.quantity = Some(cleanNumbers[1])]
           ELSE nothing
      ELSE nothing

\* ------------------------------------------------------------------------
\* Outcomes of a call: a returned value, a returned null, or an exception
\* that leaves the call
\* ------------------------------------------------------------------------
Value(v) == [kind |-> "value", value |-> v]
Null == [kind |-> "null", value |-> <<>>]
Thrown == [kind |-> "throw", value |-> <<>>]

\* ------------------------------------------------------------------------
\* GAEBParser.parsePosition. index and currentIndex count from 0 and from 1;
\* throws says that a statement inside the try block raises an exception
\* ------------------------------------------------------------------------
\* the node parsePosition returns, from the values it has extracted
PositionNode(line, index, trimmedLine, positionNumber, cleanNumbers, unit, currencyAmount, description) ==
  LET type == DetectType(trimmedLine, positionNumber, currencyAmount, unit) IN
  [id |-> IF IsSome(positionNumber) /\ ValueOf(positionNumber) # <<>>
          THEN ValueOf(positionNumber) ELSE W_pos \o DecimalString(index + 1),
   positionNumber |-> positionNumber,
   title |-> ExtractTitle(trimmedLine, index, positionNumber, currencyAmount, unit),
   description |-> IF description # <<>> THEN Some(description) ELSE None,
   unit |-> IF IsSome(unit) /\ ValueOf(unit) # <<>> /\ ~IsCurrencyUnit(ValueOf(unit))
            THEN unit ELSE None,
   level |-> DetermineLevel(line, positionNumber),
   type |-> type,
   parent |-> None]
  @@ DeterminePricing(type, cleanNumbers, currencyAmount)

\* parsePosition without its try/catch
parsePositionUncaught(line, index, allLines, currentIndex, throws) ==
  IF throws THEN Thrown
  ELSE Value(PositionNode(line, index, trim(line), ExtractPositionNumber(line),
                          ExtractNumbers(line), ExtractUnit(line),
                          ExtractCurrencyAmount(line),
                          LookAheadDescription(allLines, currentIndex)))

parsePosition(line, index, allLines, currentIndex, throws) ==
  IF throws THEN Null
  ELSE Value(PositionNode(line, index, trim(line), ExtractPositionNumber(line),
                          ExtractNumbers(line), ExtractUnit(line),
                          ExtractCurrencyAmount(line),
                          LookAheadDescription(allLines, currentIndex)))

\* ------------------------------------------------------------------------
\* The input of GAEBParser.parse. content.text is the raw text, one entry
\* per line (the text split at "\n"); content.dom is what the browser's
\* DOMParser makes of that text; content.throwsAt are the lines (by their
\* index among the non-empty lines) at which parsePosition raises inside
\* its try block.
\* ------------------------------------------------------------------------
\* content.includes(pat), for a pat without a line break
contentIncludes(content, pat) == \E i \in DOMAIN content.text : includes(content.text[i], pat)

\* content.trim().startsWith(pat), for a pat without white space
contentStartsWith(content, pat) ==
  LET nonBlank == {i \in DOMAIN content.text : trim(content.text[i]) # <<>>} IN
  nonBlank # {} /\ startsWith(trimStart(content.text[FirstIndex(nonBlank)]), pat)

EmptyHeader ==
  [version |-> None, project |-> None, description |-> None, date |-> None, format |-> None]

\* GAEBParser.detectGAEBFormat
FormatCodes ==
  << <<"D", "8", "1">>, <<"D", "8", "3">>, <<"D", "8", "4">>, <<"P", "8", "1">>,
     <<"P", "8", "3">>, <<"X", "8", "1">>, <<"X", "8", "3">> >>
W_Unknown == <<"U", "n", "k", "n", "o", "w", "n">>
detectGAEBFormat(content) ==
  LET k == FirstIndex({j \in DOMAIN FormatCodes :
                         \/ contentIncludes(content, FormatCodes[j])
                         \/ contentIncludes(content, toLowerCase(FormatCodes[j]))})
  IN  IF k = 0 THEN W_Unknown ELSE FormatCodes[k]

\* GAEBParser.extractValue
extractValue(line) ==
  LET c == FirstIndex({i \in DOMAIN line : line[i] = ":"}) IN
  IF c # 0 THEN trim(SubSeq(line, c + 1, Len(line))) ELSE line

\* content.split('\n').map(line => line.trim()).filter(line => line)
TextLines(content) ==
  SelectSeq([i \in DOMAIN content.text |-> trim(content.text[i])], LAMBDA l : l # <<>>)

\* the header keywords of the loop body, first match wins
HeaderField(line) ==
  LET lower == toLowerCase(line) IN
  IF includes(lower, W_project) \/ includes(lower, W_projekt) THEN "project"
  ELSE IF includes(lower, W_version) THEN "version"
  ELSE IF includes(lower, W_date) \/ includes(lower, W_datum) THEN "date"
  ELSE IF includes(lower, W_description) \/ includes(lower, W_beschreibung) THEN "description"
  ELSE "none"

\* the state of the loop of parseTextGAEB before its first iteration
TextLoopStart(content) ==
  [currentSection |-> "header",
   positionCounter |-> 0,
   header |-> [EmptyHeader EXCEPT !.format = Some(detectGAEBFormat(content))],
   positions |-> <<>>,
   thrown |-> FALSE]

\* one iteration of the loop of parseTextGAEB, for lines[i]
\* the header the iteration leaves for a line met in the header section
HeaderAfter(header, field, line) ==
  IF field # "none" THEN [header EXCEPT ![field] = Some(extractValue(line))] ELSE header

\* TextLoopStep with a section that follows the line at hand: a line with a
\* header keyword that does not look like a position reopens the header
TextLoopStepReopening(st, line, isPosition, position) ==
  LET inHeader == st.currentSection = "header"
      section == IF isPosition THEN "positions"
                 ELSE IF HeaderField(line) # "none" THEN "header"
                 ELSE st.currentSection
      parses == section = "positions" /\ isPosition
  IN  [currentSection |-> section,
       positionCounter |-> IF parses THEN st.positionCounter + 1 ELSE st.positionCounter,
       header |-> IF inHeader THEN HeaderAfter(st.header, HeaderField(line), line)
                  ELSE st.header,
       positions |-> IF parses /\ position.kind = "value"
                     THEN Append(st.positions, position.value) ELSE st.positions,
       thrown |-> parses /\ position.kind = "throw"]

\* TextLoopStep that hands every line of the positions section to parsePosition
TextLoopStepParsingAll(st, line, isPosition, position) ==
  LET inHeader == st.currentSection = "header"
      section == IF inHeader /\ isPosition THEN "positions" ELSE st.currentSection
      parses == section = "positions"
  IN  [currentSection |-> section,
       positionCounter |-> IF parses THEN st.positionCounter + 1 ELSE st.positionCounter,
       header |-> IF inHeader THEN HeaderAfter(st.header, HeaderField(line), line)
                  ELSE st.header,
       positions |-> IF parses /\ position.kind = "value"
                     THEN Append(st.positions, position.value) ELSE st.positions,
       thrown |-> parses /\ position.kind = "throw"]

\* TextLoopStep that looks for header keywords in every line
TextLoopStepAlwaysHeader(st, line, isPosition, position) ==
  LET inHeader == st.currentSection = "header"
      section == IF inHeader /\ isPosition THEN "positions" ELSE st.currentSection
      parses == section = "positions" /\ isPosition
  IN  [currentSection |-> section,
       positionCounter |-> IF parses THEN st.positionCounter + 1 ELSE st.positionCounter,
       header |-> HeaderAfter(st.header, HeaderField(line), line),
       positions |-> IF parses /\ position.kind = "value"
                     THEN Append(st.positions, position.value) ELSE st.positions,
       thrown |-> parses /\ position.kind = "throw"]

\* the iteration once it is known whether the line looks like a position
\* and what parsePosition makes of it
TextLoopStep(st, line, isPosition, position) ==
  LET inHeader == st.currentSection = "header"
      section == IF inHeader /\ isPosition THEN "positions" ELSE st.currentSection
      parses == section = "positions" /\ isPosition
  IN  [currentSection |-> section,
       positionCounter |-> IF parses THEN st.positionCounter + 1 ELSE st.positionCounter,
       header |-> IF inHeader THEN HeaderAfter(st.header, HeaderField(line), line)
                  ELSE st.header,
       positions |-> IF parses /\ position.kind = "value"
                     THEN Append(st.positions, position.value) ELSE st.positions,
       thrown |-> parses /\ position.kind = "throw"]

TextLoopBody(st, lines, i, throwsAt) ==
  IF st.thrown THEN st
  ELSE TextLoopStep(st, lines[i], looksLikePosition(lines[i]),
                    parsePosition(lines[i], st.positionCounter, lines, i, i \in throwsAt))

\* the iterations i..j of the loop of parseTextGAEB, entered in state st; the
\* range is run as its first half and then its second half
RECURSIVE TextLoopOver(_, _, _, _, _)
TextLoopOver(st, lines, i, j, throwsAt) ==
  IF st.thrown \/ i > j THEN st
  ELSE IF i = j THEN TextLoopBody(st, lines, i, throwsAt)
  ELSE TextLoopOver(TextLoopOver(st, lines, i, (i + j) \div 2, throwsAt),
                    lines, ((i + j) \div 2) + 1, j, throwsAt)

\* the loop of parseTextGAEB from its first iteration to the end of iteration i
TextLoop(content, lines, i) ==
  TextLoopOver(TextLoopStart(content), lines, 1, i, content.throwsAt)

\* Document with the lines of the text counted in place of the positions
DocumentCountingLines(header, positions, content, fileName, now) ==
  [header |-> header,
   positions |-> positions,
   rawContent |-> content.text,
   fileName |-> fileName,
   processedAt |-> now,
   totalPositions |-> Len(content.text)]

\* Document with the time of the call as the date of the header
DocumentDatedNow(header, positions, content, fileName, now) ==
  [header |-> [header EXCEPT !.date = Some(DecimalString(now))],
   positions |-> positions,
   rawContent |-> content.text,
   fileName |-> fileName,
   processedAt |-> now,
   totalPositions |-> Len(positions)]

\* the return statement of parseTextGAEB and of parseXMLGAEB
Document(header, positions, content, fileName, now) ==
  [header |-> header,
   positions |-> positions,
   rawContent |-> content.text,
   fileName |-> fileName,
   processedAt |-> now,
   totalPositions |-> Len(positions)]

\* GAEBParser.parseTextGAEB
TextResult(st, content, fileName, now) ==
  IF st.thrown THEN Thrown
  ELSE Value(Document(st.header, st.positions, content, fileName, now))

parseTextGAEB(content, fileName, now) ==
  TextResult(TextLoop(content, TextLines(content), Len(TextLines(content))),
             content, fileName, now)

\* ------------------------------------------------------------------------
\* The document tree the browser's DOMParser builds. A node is an element
\* (tag, attributes, children) or a text node (tag "#text", text). A node
\* with throws = TRUE raises an exception when one of its methods or
\* properties is used. An element handle is a node with the tags of its
\* ancestors, outermost first.
\* ------------------------------------------------------------------------
T_text == <<"#", "t", "e", "x", "t">>
T_document == <<"#", "d", "o", "c">>
T_parsererror == <<"p", "a", "r", "s", "e", "r", "e", "r", "r", "o", "r">>
T_GAEB == <<"G", "A", "E", "B">>
T_Award == <<"A", "w", "a", "r", "d">>
T_Project == <<"P", "r", "o", "j", "e", "c", "t">>
T_Name == <<"N", "a", "m", "e">>
T_Title == <<"T", "i", "t", "l", "e">>
T_BoQ == <<"B", "o", "Q">>
T_BoQBody == <<"B", "o", "Q", "B", "o", "d", "y">>
T_BoQCtgy == <<"B", "o", "Q", "C", "t", "g", "y">>
T_Itemlist == <<"I", "t", "e", "m", "l", "i", "s", "t">>
T_Item == <<"I", "t", "e", "m">>
T_LblTx == <<"L", "b", "l", "T", "x">>
T_span == <<"s", "p", "a", "n">>
T_p == <<"p">>
T_Qty == <<"Q", "t", "y">>
T_QU == <<"Q", "U">>
T_Description == <<"D", "e", "s", "c", "r", "i", "p", "t", "i", "o", "n">>
T_OutlineText == <<"O", "u", "t", "l", "i", "n", "e", "T", "e", "x", "t">>
T_TextOutlTxt == <<"T", "e", "x", "t", "O", "u", "t", "l", "T", "x", "t">>
T_DetailTxt == <<"D", "e", "t", "a", "i", "l", "T", "x", "t">>

Handle(node, anc) == [node |-> node, anc |-> anc]

\* the elements below h in document order, h itself excluded
RECURSIVE Descendants(_)
RECURSIVE DescendantsOfKids(_, _)
Descendants(h) == DescendantsOfKids(h, 1)
DescendantsOfKids(h, k) ==
  IF k > Len(h.node.kids) THEN <<>>
  ELSE LET kid == Handle(h.node.kids[k], Append(h.anc, h.node.tag)) IN
       (IF kid.node.tag = T_text THEN <<>> ELSE <<kid>> \o Descendants(kid))
       \o DescendantsOfKids(h, k + 1)

\* the tags of sel occur in anc in this order (descendant combinators)
RECURSIVE HasAncestors(_, _)
HasAncestors(anc, sel) ==
  IF sel = <<>> THEN TRUE
  ELSE IF anc = <<>> THEN FALSE
  ELSE IF anc[Len(anc)] = sel[Len(sel)]
       THEN HasAncestors(SubSeq(anc, 1, Len(anc) - 1), SubSeq(sel, 1, Len(sel) - 1))
       ELSE HasAncestors(SubSeq(anc, 1, Len(anc) - 1), sel)

\* Element.querySelectorAll for a selector "t1 t2 ... tn" of tag names
querySelectorAll(h, sel) ==
  SelectSeq(Descendants(h),
            LAMBDA e : /\ e.node.tag = sel[Len(sel)]
                       /\ HasAncestors(e.anc, SubSeq(sel, 1, Len(sel) - 1)))

\* Element.querySelector: the first match, or None
FirstOf(all) == IF all = <<>> THEN None ELSE Some(all[1])

querySelector(h, sel) == FirstOf(querySelectorAll(h, sel))

\* querySelector on an element that may be absent
Inside(o, sel) == IF IsSome(o) THEN querySelector(ValueOf(o), sel) ELSE None


\* Node.textContent
RECURSIVE textContent(_)
RECURSIVE TextOfKids(_, _)
textContent(node) == IF node.tag = T_text THEN node.text ELSE TextOfKids(node, 1)
TextOfKids(node, k) ==
  IF k > Len(node.kids) THEN <<>>
  ELSE textContent(node.kids[k]) \o TextOfKids(node, k + 1)

\* Element.getAttribute: the value, or None (null)
getAttribute(h, name) == h.node.attrs[name]

\* a || b for strings held as optional values: null and "" are falsy
OrElse(o, default) == IF IsSome(o) /\ ValueOf(o) # <<>> THEN ValueOf(o) ELSE default

\* an optional handle is present and its node raises when used
Raises(o) == IsSome(o) /\ ValueOf(o).node.throws

\* element.textContent?.trim() || default, for an element that may be absent
TextOr(o, default) ==
  IF IsSome(o) THEN OrElse(Some(trim(textContent(ValueOf(o).node))), default) ELSE default

\* parseInt of a string without a sign: NaN when no digit leads it
parseInt(s) ==
  LET b == SkipWhile(s, 1, SpaceChars)
      e == SkipWhile(s, b, DigitChars)
  IN  IF e > b THEN Number(DigitsValue(SubSeq(s, b, e - 1)), 1) ELSE NaN

\* parseFloat of a string without sign and exponent: NaN when no number leads it
parseFloat(s) ==
  LET b == SkipWhile(s, 1, SpaceChars)
      e == SkipWhile(s, b, DigitChars)
      f == IF At(s, e) = "." THEN SkipWhile(s, e + 1, DigitChars) ELSE e
      frac == SubSeq(s, e + 1, f - 1)
  IN  IF e = b /\ f <= e + 1 THEN NaN
      ELSE Number(DigitsValue(SubSeq(s, b, e - 1)) * Pow10(Len(frac)) + DigitsValue(frac),
                  Pow10(Len(frac)))

\* `${n}` for a number that is an integer or NaN
NumberString(v) == IF IsNaN(v) THEN <<"N", "a", "N">> ELSE DecimalString(v.n)

\* textParts.join(' ') from entry k
RECURSIVE JoinWithSpace(_, _)
JoinWithSpace(parts, k) ==
  IF k > Len(parts) THEN <<>>
  ELSE IF k = Len(parts) THEN parts[k]
  ELSE parts[k] \o <<" ">> \o JoinWithSpace(parts, k + 1)

\* the length a title taken from the detail text is cut to
TitleLimit == 100

W_UnknownCategory ==
  <<"U", "n", "k", "n", "o", "w", "n", " ", "C", "a", "t", "e", "g", "o", "r", "y">>
W_cat == <<"c", "a", "t", "_">>
W_item == <<"i", "t", "e", "m", "_">>
W_Ellipsis == <<".", ".", ".">>

\* ------------------------------------------------------------------------
\* GAEBParser.parseXMLCategory (index counts from 0)
\* ------------------------------------------------------------------------
\* the element the title is read from: LblTx span, else LblTx p, else LblTx
LabelSource(lblTxElement) ==
  IF IsSome(lblTxElement)
  THEN FirstSome(<<querySelector(ValueOf(lblTxElement), <<T_span>>),
                   querySelector(ValueOf(lblTxElement), <<T_p>>),
                   lblTxElement>>)
  ELSE None

\* a statement of the try block raises
CategoryRaises(categoryElement, lblTxElement) ==
  categoryElement.node.throws \/ Raises(lblTxElement) \/ Raises(LabelSource(lblTxElement))

parseXMLCategory(categoryElement, index, categoryNumber) ==
  IF CategoryRaises(categoryElement, querySelector(categoryElement, <<T_LblTx>>)) THEN Null
  ELSE Value([id |-> OrElse(getAttribute(categoryElement, "ID"),
                            W_cat \o DecimalString(index + 1)),
              positionNumber |-> Some(NumberString(categoryNumber)),
              title |-> TextOr(LabelSource(querySelector(categoryElement, <<T_LblTx>>)),
                               W_UnknownCategory),
              description |-> None,
              unit |-> None,
              level |-> 0,
              type |-> "title",
              quantity |-> None,
              unitPrice |-> None,
              totalPrice |-> None,
              parent |-> None])

\* ------------------------------------------------------------------------
\* GAEBParser.parseXMLItem (index counts from 0, itemNumber from 1)
\* ------------------------------------------------------------------------
\* the trimmed non-empty texts of the "p span" elements of the detail text
DetailTextParts(detailTextElement) ==
  SelectSeq([k \in DOMAIN querySelectorAll(detailTextElement, <<T_p, T_span>>) |->
               trim(textContent(querySelectorAll(detailTextElement, <<T_p, T_span>>)[k].node))],
            LAMBDA t : t # <<>>)

\* textParts: empty when there is no detail text
TextPartsOf(detailTextElement) ==
  IF IsSome(detailTextElement) THEN DetailTextParts(ValueOf(detailTextElement)) ELSE <<>>

\* a statement of the try block raises
DetailRaises(detailTextElement) ==
  \/ Raises(detailTextElement)
  \/ /\ IsSome(detailTextElement)
     /\ \E p \in Range(querySelectorAll(ValueOf(detailTextElement), <<T_p, T_span>>)) :
          p.node.throws

DescriptionRaises(descriptionElement) ==
  \/ Raises(descriptionElement)
  \/ Raises(Inside(descriptionElement, <<T_OutlineText, T_TextOutlTxt, T_span>>))
  \/ DetailRaises(Inside(descriptionElement, <<T_DetailTxt>>))

ItemRaises(itemElement) ==
  \/ itemElement.node.throws
  \/ Raises(querySelector(itemElement, <<T_Qty>>))
  \/ Raises(querySelector(itemElement, <<T_QU>>))
  \/ DescriptionRaises(querySelector(itemElement, <<T_Description>>))

\* qtyElement ? parseFloat(qtyElement.textContent || '0') : undefined
ItemQuantity(qtyElement) ==
  IF IsSome(qtyElement)
  THEN Some(parseFloat(OrElse(Some(textContent(ValueOf(qtyElement).node)), <<"0">>)))
  ELSE None

\* quElement ? quElement.textContent?.trim() : undefined
ItemUnit(quElement) ==
  IF IsSome(quElement) THEN Some(trim(textContent(ValueOf(quElement).node))) ELSE None

\* textParts[0].substring(0, 100) + (textParts[0].length > 100 ? '...' : '')
TitleFromDetail(text) ==
  IF Len(text) > TitleLimit THEN SubSeq(text, 1, TitleLimit) \o W_Ellipsis ELSE text

\* the title after the detail text has been looked at
ItemTitle(title, placeholder, textParts) ==
  IF textParts # <<>> /\ title = placeholder THEN TitleFromDetail(textParts[1]) ELSE title

\* description || undefined
ItemDescription(description) == IF description # <<>> THEN Some(description) ELSE None

\* the node parseXMLItem returns, from rNoPart and the elements it has looked up
ItemNode(itemElement, index, parentCategoryId, categoryNumber, itemNumber, rNoPart, descriptionElement, textParts) ==
  [id |-> OrElse(getAttribute(itemElement, "ID"), W_item \o DecimalString(index + 1)),
   positionNumber |->
     Some(IF Truthy(categoryNumber) /\ itemNumber # 0
          THEN NumberString(categoryNumber) \o <<".">> \o DecimalString(itemNumber)
          ELSE rNoPart),
   title |-> ItemTitle(TextOr(Inside(descriptionElement,
                                     <<T_OutlineText, T_TextOutlTxt, T_span>>),
                              W_Position \o rNoPart),
                       W_Position \o rNoPart, textParts),
   description |-> ItemDescription(JoinWithSpace(textParts, 1)),
   unit |-> ItemUnit(querySelector(itemElement, <<T_QU>>)),
   level |-> 1,
   type |-> "position",
   quantity |-> ItemQuantity(querySelector(itemElement, <<T_Qty>>)),
   unitPrice |-> None,
   totalPrice |-> None,
   parent |-> parentCategoryId]

ItemWithDescription(itemElement, index, parentCategoryId, categoryNumber, itemNumber, descriptionElement) ==
  ItemNode(itemElement, index, parentCategoryId, categoryNumber, itemNumber,
           OrElse(getAttribute(itemElement, "RNoPart"), DecimalString(index + 1)),
           descriptionElement,
           TextPartsOf(Inside(descriptionElement, <<T_DetailTxt>>)))

parseXMLItem(itemElement, index, parentCategoryId, categoryNumber, itemNumber) ==
  IF ItemRaises(itemElement) THEN Null
  ELSE Value(ItemWithDescription(itemElement, index, parentCategoryId, categoryNumber,
                                 itemNumber, querySelector(itemElement, <<T_Description>>)))

\* ------------------------------------------------------------------------
\* GAEBParser.detectXMLGAEBFormat
\* ------------------------------------------------------------------------
W_DA83 == <<"D", "A", "8", "3", "/", "3", ".", "3">>
W_DA84 == <<"D", "A", "8", "4">>
W_DA81 == <<"D", "A", "8", "1">>
W_GAEBTag == <<"<", "G", "A", "E", "B">>
W_XmlDecl == <<"<", "?", "x", "m", "l">>
W_XMLGAEB == <<"X", "M", "L", " ", "G", "A", "E", "B">>
W_XML == <<"X", "M", "L">>

detectXMLGAEBFormat(content) ==
  IF contentIncludes(content, W_DA83) THEN <<"X", "8", "3">>
  ELSE IF contentIncludes(content, W_DA84) THEN <<"X", "8", "4">>
  ELSE IF contentIncludes(content, W_DA81) THEN <<"X", "8", "1">>
  ELSE IF contentIncludes(content, W_GAEBTag) THEN W_XMLGAEB
  ELSE W_XML

\* ------------------------------------------------------------------------
\* GAEBParser.parseXMLGAEB
\* ------------------------------------------------------------------------
\* Result of a part of the walk: the positions pushed, and whether an
\* exception left it
NothingPushed == [positions |-> <<>>, thrown |-> FALSE]
WalkThrown == [positions |-> <<>>, thrown |-> TRUE]

\* if (position) positions.push(position), then the rest of the walk
Pushed(position, rest) ==
  IF position.kind = "throw" THEN WalkThrown
  ELSE [positions |-> (IF position.kind = "value" THEN <<position.value>> ELSE <<>>)
                      \o rest.positions,
        thrown |-> rest.thrown]

\* one part of the walk, then the rest
Then(part, rest) ==
  IF part.thrown THEN WalkThrown
  ELSE [positions |-> part.positions \o rest.positions, thrown |-> rest.thrown]

\* categoryPosition?.id
IdOf(categoryPosition) ==
  IF categoryPosition.kind = "value" THEN Some(categoryPosition.value.id) ELSE None

\* the inner forEach: the items of one category from item j on
RECURSIVE XMLItems(_, _, _, _)
XMLItems(items, j, categoryPosition, categoryNumber) ==
  IF j > Len(items) THEN NothingPushed
  ELSE Pushed(parseXMLItem(items[j], j - 1, IdOf(categoryPosition), categoryNumber, j),
              XMLItems(items, j + 1, categoryPosition, categoryNumber))

\* the callback of the outer forEach once the category has been parsed
CategoryAndItems(category, categoryNumber, categoryPosition) ==
  Pushed(categoryPosition,
         XMLItems(querySelectorAll(category, <<T_Item>>), 1, categoryPosition, categoryNumber))

CategoryNumbered(category, categoryIndex, categoryNumber) ==
  CategoryAndItems(category, categoryNumber,
                   parseXMLCategory(category, categoryIndex, categoryNumber))

\* the callback of the outer forEach (categoryIndex counts from 0)
XMLCategory(category, categoryIndex) ==
  IF category.node.throws THEN WalkThrown
  ELSE CategoryNumbered(category, categoryIndex,
                        parseInt(OrElse(getAttribute(category, "RNoPart"),
                                        DecimalString(categoryIndex + 1))))

\* the outer forEach: the categories from category k on
RECURSIVE XMLCategories(_, _)
XMLCategories(categories, k) ==
  IF k > Len(categories) THEN NothingPushed
  ELSE Then(XMLCategory(categories[k], k - 1), XMLCategories(categories, k + 1))

\* header.version
VersionOf(gaebElement) ==
  IF IsSome(gaebElement)
  THEN Some(OrElse(getAttribute(ValueOf(gaebElement), "xmlns"), W_Unknown))
  ELSE None

\* awardElement.querySelector('Project') || ...('Name') || ...('Title')
ProjectElement(awardElement) ==
  IF IsSome(awardElement)
  THEN FirstSome(<<querySelector(ValueOf(awardElement), <<T_Project>>),
                   querySelector(ValueOf(awardElement), <<T_Name>>),
                   querySelector(ValueOf(awardElement), <<T_Title>>)>>)
  ELSE None

\* header.project
ProjectOf(projectElement) ==
  IF IsSome(projectElement)
  THEN Some(trim(textContent(ValueOf(projectElement).node)))
  ELSE None

XMLHeader(content, xmlDoc) ==
  [EmptyHeader EXCEPT
     !.format = Some(detectXMLGAEBFormat(content)),
     !.version = VersionOf(querySelector(xmlDoc, <<T_GAEB>>)),
     !.project = ProjectOf(ProjectElement(querySelector(xmlDoc, <<T_Award>>)))]

\* the header statements of the try block raise
AwardRaises(awardElement) == Raises(awardElement) \/ Raises(ProjectElement(awardElement))
HeaderRaises(xmlDoc) ==
  Raises(querySelector(xmlDoc, <<T_GAEB>>)) \/ AwardRaises(querySelector(xmlDoc, <<T_Award>>))

\* the walk over the BoQ element
XMLWalk(boqElement) ==
  IF ~IsSome(boqElement) THEN NothingPushed
  ELSE IF Raises(boqElement) THEN WalkThrown
  ELSE XMLCategories(querySelectorAll(ValueOf(boqElement), <<T_BoQCtgy>>), 1)

\* the try block: whether it is left for the fallback (parser error element
\* or exception), and the header and positions it has built otherwise
XMLFailed == [failed |-> TRUE, header |-> EmptyHeader, positions |-> <<>>]
XMLWalked(header, walk) ==
  IF walk.thrown THEN XMLFailed
  ELSE [failed |-> FALSE, header |-> header, positions |-> walk.positions]

XMLTry(content, xmlDoc) ==
  IF content.dom.kind = "throw" THEN XMLFailed
  ELSE IF IsSome(querySelector(xmlDoc, <<T_parsererror>>)) THEN XMLFailed
  ELSE IF HeaderRaises(xmlDoc) THEN XMLFailed
  ELSE XMLWalked(XMLHeader(content, xmlDoc), XMLWalk(querySelector(xmlDoc, <<T_BoQ>>)))

\* XMLReturn with a fallback that keeps the format label of the markup
XMLReturnKeepingFormat(try, content, fileName, now) ==
  IF try.failed
  THEN Value([parseTextGAEB(content, fileName, now).value EXCEPT
                !.header.format = Some(detectXMLGAEBFormat(content))])
  ELSE Value(Document(try.header, try.positions, content, fileName, now))

XMLReturn(try, content, fileName, now) ==
  IF try.failed THEN parseTextGAEB(content, fileName, now)
  ELSE Value(Document(try.header, try.positions, content, fileName, now))

parseXMLGAEB(content, fileName, now) ==
  XMLReturn(XMLTry(content, Handle(content.dom.root, <<>>)), content, fileName, now)

\* ------------------------------------------------------------------------
\* GAEBParser.parse
\* ------------------------------------------------------------------------
IsXMLContent(content) ==
  contentStartsWith(content, W_XmlDecl) \/ contentIncludes(content, W_GAEBTag)

parse(content, fileName, now) ==
  IF IsXMLContent(content) THEN parseXMLGAEB(content, fileName, now)
  ELSE parseTextGAEB(content, fileName, now)

\* ------------------------------------------------------------------------
\* Inputs: markup documents. A document is given as its tree; its raw text
\* is the serialization of the tree, one element per line.
\* ------------------------------------------------------------------------
NoAttrs == [ID |-> None, RNoPart |-> None, xmlns |-> None]
El(tag, attrs, kids) ==
  [tag |-> tag, attrs |-> attrs, kids |-> kids, text |-> <<>>, throws |-> FALSE]
Txt(t) == [tag |-> T_text, attrs |-> NoAttrs, kids |-> <<>>, text |-> t, throws |-> FALSE]
\* an element that holds text only (no text node when the text is empty)
Leaf(tag, t) == El(tag, NoAttrs, IF t = <<>> THEN <<>> ELSE <<Txt(t)>>)
Faulty(node) == [node EXCEPT !.throws = TRUE]

AttrNames == <<"ID", "RNoPart", "xmlns">>
AttrChars == [ID |-> <<"I", "D">>,
              RNoPart |-> <<"R", "N", "o", "P", "a", "r", "t">>,
              xmlns |-> <<"x", "m", "l", "n", "s">>]

RECURSIVE SerializeAttrs(_, _)
SerializeAttrs(attrs, k) ==
  IF k > Len(AttrNames) THEN <<>>
  ELSE (IF IsSome(attrs[AttrNames[k]])
        THEN <<" ">> \o AttrChars[AttrNames[k]] \o <<"=", "\"">>
             \o ValueOf(attrs[AttrNames[k]]) \o <<"\"">>
        ELSE <<>>) \o SerializeAttrs(attrs, k + 1)

OpenTag(node) == <<"<">> \o node.tag \o SerializeAttrs(node.attrs, 1) \o <<">">>
CloseTag(node) == <<"<", "/">> \o node.tag \o <<">">>

\* the lines of the text of a node
RECURSIVE Serialize(_)
RECURSIVE SerializeKids(_, _)
Serialize(node) ==
  IF node.tag = T_text THEN <<node.text>>
  ELSE IF \A k \in DOMAIN node.kids : node.kids[k].tag = T_text
       THEN <<OpenTag(node) \o textContent(node) \o CloseTag(node)>>
  ELSE <<OpenTag(node)>> \o SerializeKids(node, 1) \o <<CloseTag(node)>>
SerializeKids(node, k) ==
  IF k > Len(node.kids) THEN <<>>
  ELSE Serialize(node.kids[k]) \o SerializeKids(node, k + 1)

XmlDeclLine == <<"<", "?", "x", "m", "l", " ", "v", "e", "r", "s", "i", "o", "n", "=", "\"", "1", ".", "0", "\"", "?", ">">>

\* ---- items ----
ItemVariants == {"full", "bare", "currency", "blank", "long", "faulty"}
ParagraphOf(t) == El(T_p, NoAttrs, <<Leaf(T_span, t)>>)
OutlineOf(t) ==
  El(T_OutlineText, NoAttrs,
     <<El(<<"O", "u", "t", "l", "T", "x", "t">>, NoAttrs,
          <<El(T_TextOutlTxt, NoAttrs, <<ParagraphOf(t)>>)>>)>>)
DetailOf(texts) ==
  El(T_DetailTxt, NoAttrs,
     <<El(<<"T", "e", "x", "t">>, NoAttrs, [k \in DOMAIN texts |-> ParagraphOf(texts[k])])>>)
DescriptionOf(parts) ==
  El(T_Description, NoAttrs, <<El(<<"C", "o", "m", "p", "l", "e", "t", "e", "T", "e", "x", "t">>, NoAttrs, parts)>>)
LongText == [i \in 1..(TitleLimit + 1) |-> IF i % 7 = 0 THEN " " ELSE "x"]

\* the item with variant v, the j-th item of the c-th category
ItemOf(v, c, j) ==
  LET uid == <<"i">> \o DecimalString(c) \o <<"_">> \o DecimalString(j) IN
  CASE v = "full" ->
         El(T_Item, [NoAttrs EXCEPT !.ID = Some(uid), !.RNoPart = Some(<<"1", "0">>)],
            <<Leaf(T_Qty, <<"5">>), Leaf(T_QU, W_Stk),
              DescriptionOf(<<DetailOf(<<<<"H", "o", "l", "z">>, <<"m", "a", "s", "s", "i", "v">>>>), OutlineOf(<<"T", "u", "e", "r">>)>>)>>)
    [] v = "bare" -> El(T_Item, NoAttrs, <<>>)
    [] v = "currency" ->
         El(T_Item, NoAttrs,
            <<Leaf(T_Qty, <<"2", ".", "5">>), Leaf(T_QU, W_EUR),
              DescriptionOf(<<DetailOf(<<<<" ">>, <<"L", "i", "e", "f", "e", "r", "u", "n", "g", " ", "f", "r", "e", "i", " ", "H", "a", "u", "s">>>>)>>)>>)
    [] v = "blank" ->
         El(T_Item, [NoAttrs EXCEPT !.RNoPart = Some(<<"7">>)],
            <<Leaf(T_Qty, <<>>), Leaf(T_QU, <<" ">>),
              DescriptionOf(<<OutlineOf(<<" ">>)>>)>>)
    [] v = "long" ->
         El(T_Item, [NoAttrs EXCEPT !.ID = Some(uid)],
            <<Leaf(T_Qty, <<"a", "b", "c">>), DescriptionOf(<<DetailOf(<<LongText>>)>>)>>)
    [] v = "faulty" -> Faulty(El(T_Item, [NoAttrs EXCEPT !.ID = Some(uid)], <<>>))

\* ---- categories ----
CategoryVariants ==
  {"numbered", "unlabelled", "letter", "zero", "blankLabel", "faultyLabel", "faulty"}
LabelOf(t) == El(T_LblTx, NoAttrs, <<ParagraphOf(t)>>)

\* the category with variant v, the c-th of the document, with its items and
\* the categories nested in it
CategoryOf(v, c, items, nested) ==
  LET body == <<El(T_BoQBody, NoAttrs, <<El(T_Itemlist, NoAttrs, items)>> \o nested)>>
      cid == <<"c">> \o DecimalString(c)
  IN  CASE v = "numbered" ->
             El(T_BoQCtgy, [NoAttrs EXCEPT !.ID = Some(cid), !.RNoPart = Some(DecimalString(c + 2))],
                <<LabelOf(<<"R", "o", "h", "b", "a", "u">>)>> \o body)
        [] v = "unlabelled" -> El(T_BoQCtgy, NoAttrs, body)
        [] v = "letter" ->
             El(T_BoQCtgy, [NoAttrs EXCEPT !.RNoPart = Some(<<"A">>)],
                <<El(T_LblTx, NoAttrs, <<Leaf(T_p, <<"A", "u", "s", "b", "a", "u">>)>>)>> \o body)
        [] v = "zero" ->
             El(T_BoQCtgy, [NoAttrs EXCEPT !.ID = Some(cid), !.RNoPart = Some(<<"0">>)],
                <<LabelOf(<<"R", "o", "h", "b", "a", "u">>)>> \o body)
        [] v = "blankLabel" ->
             El(T_BoQCtgy, [NoAttrs EXCEPT !.ID = Some(cid)], <<LabelOf(<<" ">>)>> \o body)
        [] v = "faultyLabel" ->
             El(T_BoQCtgy, [NoAttrs EXCEPT !.ID = Some(cid)],
                <<Faulty(LabelOf(<<"R", "o", "h", "b", "a", "u">>))>> \o body)
        [] v = "faulty" -> Faulty(El(T_BoQCtgy, [NoAttrs EXCEPT !.ID = Some(cid)], body))

\* ---- documents ----
AwardVariants == {"none", "name", "emptyProject", "title"}
NamespaceVariants == {"DA83", "DA84", "none"}
W_Namespace83 == <<"h", "t", "t", "p", ":", "/", "/", "w", "w", "w", ".", "g", "a", "e", "b", ".", "d", "e", "/", "G", "A", "E", "B", "_", "D", "A", "_", "X", "M", "L", "/", "D", "A", "8", "3", "/", "3", ".", "3">>
W_Namespace84 == <<"h", "t", "t", "p", ":", "/", "/", "w", "w", "w", ".", "g", "a", "e", "b", ".", "d", "e", "/", "G", "A", "E", "B", "_", "D", "A", "_", "X", "M", "L", "/", "D", "A", "8", "4", "/", "3", ".", "3">>

BoQOf(categories) == El(T_BoQ, NoAttrs, <<El(T_BoQBody, NoAttrs, categories)>>)

\* the root element: namespace variant gv, award variant av, the categories
RootOf(gv, av, categories) ==
  LET boq == BoQOf(categories)
      kids == CASE av = "none" -> <<boq>>
                [] av = "name" -> <<El(T_Award, NoAttrs, <<Leaf(T_Name, <<"H", "a", "u", "s">>), boq>>)>>
                [] av = "emptyProject" ->
                     <<El(T_Award, NoAttrs,
                          <<Leaf(T_Project, <<>>), Leaf(T_Name, <<"H", "a", "u", "s">>), boq>>)>>
                [] av = "title" -> <<El(T_Award, NoAttrs, <<Leaf(T_Title, <<"U", "m", "b", "a", "u">>), boq>>)>>
  IN  El(T_GAEB,
         [NoAttrs EXCEPT !.xmlns = CASE gv = "DA83" -> Some(W_Namespace83)
                                     [] gv = "DA84" -> Some(W_Namespace84)
                                     [] gv = "none" -> None],
         kids)

\* n categories with m items each; the last category has variant cv and the
\* last item of every category has variant iv, the others are "numbered" and
\* "full"; with nest, the categories after the first lie inside the first
CategoriesOf(cv, iv, n, m, nest) ==
  LET items(c) == [j \in 1..m |-> ItemOf(IF j = m THEN iv ELSE "full", c, j)]
      category(c, nested) ==
        CategoryOf(IF c = n THEN cv ELSE "numbered", c, items(c), nested)
  IN  IF nest THEN <<category(1, [k \in 1..(n - 1) |-> category(k + 1, <<>>)])>>
      ELSE [c \in 1..n |-> category(c, <<>>)]

DocumentNode(root) == El(T_document, NoAttrs, <<root>>)
ParserErrorNode == Leaf(T_parsererror, <<"e", "r", "r", "o", "r", " ", "o", "n", " ", "l", "i", "n", "e", " ", "1">>)

\* the content whose text is well-formed markup for the tree root
MarkupContent(root, withDeclaration) ==
  [text |-> (IF withDeclaration THEN <<XmlDeclLine>> ELSE <<>>) \o Serialize(root),
   dom |-> [kind |-> "document", root |-> DocumentNode(root)],
   throwsAt |-> {}]

\* the same text with its last line cut off (an unclosed tag), or with a
\* DOMParser that raises
BrokenVariants == {"errorDocument", "errorInTree", "parserThrows"}
BrokenContent(root, variant) ==
  LET whole == MarkupContent(root, TRUE)
      cut == SubSeq(whole.text, 1, Len(whole.text) - 1)
  IN  CASE variant = "errorDocument" ->
             [whole EXCEPT !.text = cut,
                           !.dom = [kind |-> "document", root |-> DocumentNode(ParserErrorNode)]]
        [] variant = "errorInTree" ->
             [whole EXCEPT !.text = cut,
                           !.dom = [kind |-> "document",
                                    root |-> DocumentNode([root EXCEPT !.kids = <<ParserErrorNode>> \o @])]]
        [] variant = "parserThrows" ->
             [whole EXCEPT !.dom = [kind |-> "throw", root |-> DocumentNode(ParserErrorNode)]]

\* ------------------------------------------------------------------------
\* Inputs: text documents
\* ------------------------------------------------------------------------
\* a text that is not markup: DOMParser, if asked, answers with an error document
TextContent(lines, throwsAt) ==
  [text |-> lines,
   dom |-> [kind |-> "document", root |-> DocumentNode(ParserErrorNode)],
   throwsAt |-> throwsAt]

\* the words lines are composed of
Tokens ==
  { <<"1", ".", "2">>, <<"1", "2">>, <<"A", "1">>, <<"W", "a", "n", "d">>, <<"R", "O", "H", "B", "A", "U">>, <<"m">>, <<"e", "u", "r">>, <<"1", "5", ",", "5", "0", EuroSign>>, <<"0", ",", "0", "0">>, <<"E", "U", "R">> }

\* the lines of up to k tokens, separated by one space
RECURSIVE LinesOfTokens(_)
LinesOfTokens(k) ==
  IF k = 0 THEN {}
  ELSE Tokens \cup LinesOfTokens(k - 1)
       \cup {l \o <<" ">> \o t : l \in LinesOfTokens(k - 1), t \in Tokens}

\* lines of the specification's examples and of cases the tokens do not reach
ExampleLines ==
  { <<"1", ".", "2", " ", "M", "a", "u", "e", "r", "w", "e", "r", "k", " ", "2", "0", "m", Sup2, " ", "1", "5", ",", "5", "0", EuroSign>>,
    <<"2", " ", "R", "O", "H", "B", "A", "U", "A", "R", "B", "E", "I", "T", "E", "N">>,
    <<" ", " ", " ", " ", "7", " ", "P", "u", "t", "z", " ", "3", " ", "m", Sup2, " ", "4", ",", "0", "0", " ", "D", "M">>,
    <<"S", "u", "m", "m", "e", " ", "1", "0", "0">>,
    <<"5", " ", "S", "t", "k", " ", "2", ",", "5", "0", " ", EuroSign, " ", "1", "2", ",", "5", "0">>,
    <<"<", "G", "A", "E", "B">>,
    <<"7", " ", ".">>,
    <<"3", " ", "P", "R", "O", "J", "E", "K", "T", "E">>,
    <<" ", " ", " ", " ", " ", " ", " ", " ", "8", " ", "S", "o", "c", "k", "e", "l">>,
    [i \in 1..90 |-> IF i % 9 = 0 THEN " " ELSE "x"],
    [i \in 1..90 |-> IF i % 9 = 0 THEN " " ELSE "x"] \o <<"0", ",", "0", "0", " ", "E", "U", "R">>,
    [i \in 1..90 |-> IF i % 9 = 0 THEN " " ELSE "x"] \o <<"4", ",", "0", "0", " ", "E", "U", "R">> }

\* the lines multi-line documents are composed of
DocLines ==
  { <<"P", "r", "o", "j", "e", "k", "t", ":", " ", "H", "a", "u", "s">>,
    <<"V", "e", "r", "s", "i", "o", "n", ":", " ", "2">>,
    <<"1", " ", "W", "a", "n", "d", " ", "5", " ", "m">>,
    <<"1", " ", "B", "e", "t", "o", "n">>,
    <<"A", "u", "s", "f", "u", "e", "h", "r", "u", "n", "g", " ", "n", "a", "c", "h", " ", "N", "o", "r", "m">>,
    <<"3", " ", "D", "a", "t", "u", "m", " ", "M", "o", "n", "t", "a", "g", "e">>,
    <<"B", "e", "t", "o", "n", " ", "l", "i", "e", "f", "e", "r", "n">> }

\* the sequences of 1..k elements of S
RECURSIVE SeqsUpTo(_, _)
SeqsUpTo(S, k) ==
  IF k = 0 THEN {}
  ELSE {<<x>> : x \in S} \cup SeqsUpTo(S, k - 1)
       \cup {Append(q, x) : q \in SeqsUpTo(S, k - 1), x \in S}

\* ------------------------------------------------------------------------
\* Bounds
\* ------------------------------------------------------------------------
MaxTokens == 3
MaxLines == 3
MaxCats == 2
MaxItems == 2
MaxFiles == 2
MaxClock == 1

\* ------------------------------------------------------------------------
\* The inputs of the parser
\* ------------------------------------------------------------------------
SingleLineContents ==
  {TextContent(<<l>>, {}) : l \in LinesOfTokens(MaxTokens) \cup ExampleLines}

MultiLineContents ==
  {TextContent(ls, t) : ls \in SeqsUpTo(DocLines, MaxLines), t \in {{}, {1}, {2}}}

BodyRoots ==
  {RootOf("DA83", "name", CategoriesOf(cv, iv, n, m, nest)) :
     cv \in CategoryVariants, iv \in ItemVariants,
     n \in 1..MaxCats, m \in 0..MaxItems, nest \in BOOLEAN}

HeaderRoots ==
  {RootOf(gv, av, CategoriesOf("numbered", "full", n, 1, FALSE)) :
     gv \in NamespaceVariants, av \in AwardVariants, n \in 0..1}

\* well-formed documents without a BoQ element: the award alone, and the
\* categories directly below the root
RootWithoutBoQ(gv, categories) ==
  [RootOf(gv, "none", <<>>) EXCEPT
     !.kids = <<El(T_Award, NoAttrs, <<Leaf(T_Name, <<"H", "a", "u", "s">>)>>)>> \o categories]

NoBoQRoots ==
  {RootWithoutBoQ(gv, CategoriesOf("numbered", "full", n, 1, FALSE)) :
     gv \in NamespaceVariants, n \in 0..1}

MarkupContents ==
  {MarkupContent(root, TRUE) : root \in BodyRoots \cup HeaderRoots \cup NoBoQRoots}
  \cup {MarkupContent(root, FALSE) : root \in HeaderRoots}

BrokenRoots ==
  HeaderRoots
  \cup {RootOf("DA84", "name", CategoriesOf("numbered", iv, 1, m, FALSE)) :
          iv \in {"full", "bare", "currency"}, m \in 1..MaxItems}

BrokenContents == {BrokenContent(root, v) : root \in BrokenRoots, v \in BrokenVariants}

Contents == SingleLineContents \cup MultiLineContents \cup MarkupContents \cup BrokenContents

FileNames == {<<"l", "v", ".", "x", "8", "3">>, <<"a", "n", "g", "e", "b", "o", "t", ".", "d", "8", "3">>}

\* ------------------------------------------------------------------------
\* FileUpload, useGAEBProcessor and Home. A File is a record with an identity
\* (id), a name and the content its read delivers.
\* ------------------------------------------------------------------------
\* validExtensions with a fifth extension
validExtensionsWithTxt ==
  {<<".", "g", "a", "e", "b">>, <<".", "d", "8", "3">>, <<".", "p", "8", "3">>, <<".", "x", "8", "3">>, <<".", "t", "x", "t">>}

\* the accepted extensions, in FileUpload.handleFile and in processFile
validExtensions == {<<".", "g", "a", "e", "b">>, <<".", "d", "8", "3">>, <<".", "p", "8", "3">>, <<".", "x", "8", "3">>}

\* String.prototype.lastIndexOf for one character, counting from 0
lastIndexOf(s, c) ==
  LET S == {i \in DOMAIN s : s[i] = c} IN
  IF S = {} THEN -1 ELSE (CHOOSE i \in S : \A j \in S : j <= i) - 1

\* String.prototype.slice(start)
slice(s, start) ==
  LET from == IF start < 0 THEN (IF Len(s) + start < 0 THEN 0 ELSE Len(s) + start) ELSE start
  IN  SubSeq(s, from + 1, Len(s))

\* file.name.toLowerCase().slice(file.name.lastIndexOf('.'))
fileExtension(name) == slice(toLowerCase(name), lastIndexOf(name, "."))

\* handleFileProcessed that appends without removing the entry of the same name
handleFileProcessedAppending(prev, gaebData) == Append(prev, gaebData)

\* handleFileProcessed that keeps the entries of the same name and drops the others
handleFileProcessedDropping(prev, gaebData) ==
  Append(SelectSeq(prev, LAMBDA f : f.fileName = gaebData.fileName), gaebData)

\* the updater of setProcessedFiles in Home.handleFileProcessed
handleFileProcessed(prev, gaebData) ==
  Append(SelectSeq(prev, LAMBDA f : f.fileName # gaebData.fileName), gaebData)

\* the updater of setProcessedFiles in useGAEBProcessor.processFile
addProcessedFile(prev, fileName, gaebData) ==
  Append(SelectSeq(prev, LAMBDA f : f.fileName # fileName), gaebData)

\* updateEntry that does not compare the file
updateEntryOfAll(prev, file, status, gaebData, error) ==
  [i \in DOMAIN prev |->
     [prev[i] EXCEPT !.status = status,
                     !.gaebData = IF IsSome(gaebData) THEN gaebData ELSE @,
                     !.error = IF IsSome(error) THEN error ELSE @]]

\* prev.map(f => f.file === file ? { ...f, ...update } : f) in handleFile
updateEntry(prev, file, status, gaebData, error) ==
  [i \in DOMAIN prev |->
     IF prev[i].file = file
     THEN [prev[i] EXCEPT !.status = status,
                          !.gaebData = IF IsSome(gaebData) THEN gaebData ELSE @,
                          !.error = IF IsSome(error) THEN error ELSE @]
     ELSE prev[i]]

\* useGAEBProcessor.processFile up to its first await: the flags it sets and
\* whether it is suspended at the read or has rejected
processFileStart(file) ==
  IF fileExtension(file.name) \notin validExtensions
  THEN [isProcessing |-> FALSE, error |-> Some("Unsupported file type"), suspended |-> FALSE]
  ELSE [isProcessing |-> TRUE, error |-> None, suspended |-> TRUE]

\* useGAEBProcessor.processFile from the resolved read to its end
\* the rest of processFile once GAEBParser.parse has returned or raised
processFileParsed(file, prevFiles, prevError, gaebData) ==
  IF gaebData.kind = "value"
  THEN [processedFiles |-> addProcessedFile(prevFiles, file.name, gaebData.value),
        error |-> prevError, returned |-> Some(gaebData.value)]
  ELSE [processedFiles |-> prevFiles,
        error |-> Some("Unknown error occurred"), returned |-> None]

processFileRest(file, prevFiles, prevError, now) ==
  processFileParsed(file, prevFiles, prevError, parse(file.content, file.name, now))

\* ------------------------------------------------------------------------
\* ExcelExporter: a sheet is its name, its rows (aoa_to_sheet), its column
\* widths and the rows styled as category rows; the workbook is the list of
\* sheets handed to book_append_sheet and the name handed to writeFile
\* ------------------------------------------------------------------------
SheetNameLimit == 31
W_File == <<"F", "i", "l", "e", "_">>
W_Projekt == <<"P", "r", "o", "j", "e", "k", "t", ":", " ">>
W_X83 == <<"X", "8", "3">>
W_GAEB_Export == <<"G", "A", "E", "B", "_", "E", "x", "p", "o", "r", "t">>
W_xlsx == <<".", "x", "l", "s", "x">>
UUmlaut == "U+00DC"
uUmlaut == "U+00FC"
W_Uebersicht ==
  <<"G", "A", "E", "B", " ", "P", "r", "o", "d", "u", "k", "t", "i", "o", "n", "s", "l", "i",
   "s", "t", "e", " ", "-", " ", UUmlaut, "b", "e", "r", "s", "i", "c", "h", "t">>
W_Stueckzahl == <<"S", "t", uUmlaut, "c", "k", "z", "a", "h", "l">>

\* the class [\\/:*?"<>|]
SheetNameForbidden == {"\\", "/", ":", "*", "?", "\"", "<", ">", "|"}

\* s.replace(/[\\/:*?"<>|]/g, '_')
replaceForbidden(s) ==
  [i \in DOMAIN s |-> IF s[i] \in SheetNameForbidden THEN "_" ELSE s[i]]

\* s.substring(0, n)
substring(s, n) == SubSeq(s, 1, IF Len(s) < n THEN Len(s) ELSE n)

cleanFileName(gaebFile) == substring(replaceForbidden(gaebFile.fileName), SheetNameLimit)

\* the name of the sheet of the file at 0-based position index
sheetName(gaebFiles, index) ==
  IF Len(gaebFiles) > 1
  THEN W_File \o DecimalString(index + 1) \o <<"_">> \o cleanFileName(gaebFiles[index + 1])
  ELSE cleanFileName(gaebFiles[index + 1])

\* positions.filter(p => p.type === type).length
countOfType(positions, type) ==
  Cardinality({i \in DOMAIN positions : positions[i].type = type})

\* new Date(t).toISOString() and toLocaleString('de-DE') at UTC; the clock
\* counts seconds from the epoch and stays below ten
toISOString(t) ==
  <<"1", "9", "7", "0", "-", "0", "1", "-", "0", "1", "T", "0", "0", ":", "0", "0", ":", "0">>
  \o DecimalString(t) \o <<".", "0", "0", "0", "Z">>
toLocaleString(t) ==
  <<"1", ".", "1", ".", "1", "9", "7", "0", ",", " ", "0", "0", ":", "0", "0", ":", "0">>
  \o DecimalString(t)

\* the row of one file in the summary sheet
summaryRow(file) ==
  <<file.fileName, OrElse(file.header.format, W_X83), countOfType(file.positions, "title"),
    countOfType(file.positions, "position"), file.totalPositions,
    toLocaleString(file.processedAt)>>

\* gaebFiles.reduce((sum, file) => sum + <count of type>, 0)
RECURSIVE totalOfType(_, _)
totalOfType(gaebFiles, type) ==
  IF gaebFiles = <<>> THEN 0
  ELSE totalOfType(SubSeq(gaebFiles, 1, Len(gaebFiles) - 1), type)
       + countOfType(gaebFiles[Len(gaebFiles)].positions, type)

\* gaebFiles.reduce((sum, file) => sum + file.totalPositions, 0)
RECURSIVE totalPositions(_)
totalPositions(gaebFiles) ==
  IF gaebFiles = <<>> THEN 0
  ELSE totalPositions(SubSeq(gaebFiles, 1, Len(gaebFiles) - 1))
       + gaebFiles[Len(gaebFiles)].totalPositions

summaryTitleRows ==
  << <<W_Uebersicht>>, <<"">>,
     <<"Datei", "Format", "Kategorien", "Artikel", "Gesamt Positionen", "Bearbeitet am">> >>

summaryTotalRows(gaebFiles) ==
  << <<"">>,
     <<"GESAMT", "", totalOfType(gaebFiles, "title"), totalOfType(gaebFiles, "position"),
       totalPositions(gaebFiles), "">> >>

\* a summary sheet that closes with the totals whatever the number of files
createSummarySheetAlwaysTotals(gaebFiles) ==
  summaryTitleRows \o [i \in DOMAIN gaebFiles |-> summaryRow(gaebFiles[i])]
  \o summaryTotalRows(gaebFiles)

\* ExcelExporter.createSummarySheet
createSummarySheet(gaebFiles) ==
  summaryTitleRows \o [i \in DOMAIN gaebFiles |-> summaryRow(gaebFiles[i])]
  \o (IF Len(gaebFiles) > 1 THEN summaryTotalRows(gaebFiles) ELSE <<>>)

\* the row of one position in the sheet of its file
positionRow(position) ==
  <<OrElse(position.positionNumber, ""), position.title,
    IF position.type = "position" /\ IsSome(position.quantity)
       /\ Truthy(ValueOf(position.quantity))
    THEN ValueOf(position.quantity) ELSE "",
    "", "", "", "", "", "", "", "">>

\* ExcelExporter.createPositionSheet
createPositionSheet(gaebFile, includeDescription) ==
  << <<W_Projekt \o OrElse(gaebFile.header.project, gaebFile.fileName),
       "", "", "", "", "", "", "", "", "">>,
     <<"", "", "", "", "", "", "", "", "", "">>,
     <<"Werkstatt", "", "", "", "", "Zukauf", "", "", "", "">>,
     <<"", "", "", "", "", "", "", "", "", "">>,
     <<"Position", "Produkt", W_Stueckzahl, "zugeschnitten", "gebaut", "", "Produkt",
       W_Stueckzahl, "bestellt am", "geliefert", "">> >>
  \o [i \in DOMAIN gaebFile.positions |-> positionRow(gaebFile.positions[i])]

columnWidths == <<12, 50, 10, 12, 10, 3, 40, 10, 12, 10, 30>>
dataStartRow == 6

\* the sheet of the file at 0-based position index
positionSheet(gaebFiles, index, includeDescription) ==
  [name |-> sheetName(gaebFiles, index),
   data |-> createPositionSheet(gaebFiles[index + 1], includeDescription),
   cols |-> columnWidths,
   titleRows |-> {dataStartRow + (i - 1) : i \in
                    {k \in DOMAIN gaebFiles[index + 1].positions :
                       gaebFiles[index + 1].positions[k].type = "title"}}]

\* new Date().toISOString().slice(0, 19).replace(/[:-]/g, '')
timestamp(now) ==
  SelectSeq(SubSeq(toISOString(now), 1, 19), LAMBDA c : c \notin {":", "-"})

\* ExcelExporter.exportToExcel
exportToExcel(gaebFiles, includeDescription, fileName, now) ==
  [sheets |->
     <<[name |-> <<"S", "u", "m", "m", "a", "r", "y">>, data |-> createSummarySheet(gaebFiles),
        cols |-> <<>>, titleRows |-> {}]>>
     \o [i \in DOMAIN gaebFiles |-> positionSheet(gaebFiles, i - 1, includeDescription)],
   fileName |-> fileName \o <<"_">> \o timestamp(now) \o W_xlsx]

VARIABLES
  content, fileName, result,     \* the argument and the outcome of GAEBParser.parse
  again,                         \* the outcome of a second call with the same arguments
  loop,                          \* parseTextGAEB run line by line: its place and its locals
  clock,                         \* the time new Date() reads
  nextFile,                      \* the identity of the next File the browser creates
  alerts,                        \* the alert() calls so far
  uploadedFiles,                 \* FileUpload: the upload entries
  reading,                       \* the files whose handleFile is suspended at the read
  hookProcessedFiles,            \* useGAEBProcessor: processedFiles
  isProcessing, error,           \* useGAEBProcessor: isProcessing, error
  processedFiles,                \* Home: the published documents
  workbook                       \* the workbook last written by ExcelExporter.exportToExcel

parseVars == <<content, fileName, result, again, loop>>
uploadVars ==
  <<nextFile, alerts, uploadedFiles, reading, hookProcessedFiles, isProcessing, error,
    processedFiles, workbook>>
vars == <<content, fileName, result, again, loop, clock, nextFile, alerts, uploadedFiles, reading,
          hookProcessedFiles, isProcessing, error, processedFiles, workbook>>

NotCalled == [kind |-> "none", value |-> <<>>]

\* parseTextGAEB has not been entered
NotEntered == [at |-> "before", i |-> 0, st |-> <<>>]

\* no workbook has been written
NotExported == [sheets |-> <<>>, fileName |-> <<>>]

\* the state of the components after their first render
InitUpload ==
  /\ clock = 0
  /\ nextFile = 1
  /\ alerts = 0
  /\ uploadedFiles = <<>>
  /\ reading = {}
  /\ hookProcessedFiles = <<>>
  /\ isProcessing = FALSE
  /\ error = None
  /\ processedFiles = <<>>
  /\ workbook = NotExported

\* time passes
Tick ==
  /\ clock < MaxClock
  /\ clock' = clock + 1
  /\ UNCHANGED <<parseVars, uploadVars>>

\* ------------------------------------------------------------------------
\* The parser on its own
\* ------------------------------------------------------------------------
InitParse ==
  /\ content \in Contents
  /\ fileName \in FileNames
  /\ result = NotCalled
  /\ again = NotCalled
  /\ loop = NotEntered
  /\ InitUpload

Parse ==
  /\ result = NotCalled
  /\ result' = parse(content, fileName, clock)
  /\ UNCHANGED <<content, fileName, again, loop, clock, uploadVars>>

NextParse == Parse \/ Tick

SpecParse == InitParse /\ [][NextParse]_vars

\* ------------------------------------------------------------------------
\* The parser called twice with the same text and file name
\* ------------------------------------------------------------------------
\* the inputs of the two calls: texts of one and of two lines, documents with
\* every kind of header and of category, broken markup
TwiceContents ==
  {TextContent(<<l>>, {}) : l \in ExampleLines}
  \cup {TextContent(ls, t) : ls \in SeqsUpTo(DocLines, 2), t \in {{}, {1}}}
  \cup {MarkupContent(root, TRUE) : root \in HeaderRoots}
  \cup {MarkupContent(RootOf("DA83", "name", CategoriesOf(cv, "full", MaxCats, MaxItems, FALSE)),
                      TRUE) : cv \in CategoryVariants}
  \cup BrokenContents

InitTwice ==
  /\ content \in TwiceContents
  /\ fileName \in FileNames
  /\ result = NotCalled
  /\ again = NotCalled
  /\ loop = NotEntered
  /\ InitUpload

ParseAgain ==
  /\ result # NotCalled
  /\ again = NotCalled
  /\ again' = parse(content, fileName, clock)
  /\ UNCHANGED <<content, fileName, result, loop, clock, uploadVars>>

NextTwice == Parse \/ ParseAgain \/ Tick

SpecTwice == InitTwice /\ [][NextTwice]_vars

\* ------------------------------------------------------------------------
\* The heuristic parser line by line: parseTextGAEB up to its loop, one
\* iteration of the loop at a time, and its return
\* ------------------------------------------------------------------------
LoopContents == MultiLineContents

InitLoop ==
  /\ content \in LoopContents
  /\ fileName \in FileNames
  /\ result = NotCalled
  /\ again = NotCalled
  /\ loop = NotEntered
  /\ InitUpload

\* parseTextGAEB from its entry to the head of the loop
parseTextGAEBEnter ==
  /\ loop.at = "before"
  /\ loop' = [at |-> "loop", i |-> 0, st |-> TextLoopStart(content)]
  /\ UNCHANGED <<content, fileName, result, again, clock, uploadVars>>

\* one iteration of the loop; loop.i is the number of iterations done
parseTextGAEBIterate ==
  /\ loop.at = "loop"
  /\ loop.i < Len(TextLines(content))
  /\ ~loop.st.thrown
  /\ loop' = [loop EXCEPT !.i = @ + 1,
                          !.st = TextLoopBody(@, TextLines(content), loop.i + 1,
                                              content.throwsAt)]
  /\ UNCHANGED <<content, fileName, result, again, clock, uploadVars>>

\* the loop is left and the document is returned
parseTextGAEBReturn ==
  /\ loop.at = "loop"
  /\ loop.i = Len(TextLines(content)) \/ loop.st.thrown
  /\ loop' = [loop EXCEPT !.at = "returned"]
  /\ result' = TextResult(loop.st, content, fileName, clock)
  /\ UNCHANGED <<content, fileName, again, clock, uploadVars>>

NextLoop == parseTextGAEBEnter \/ parseTextGAEBIterate \/ parseTextGAEBReturn \/ Tick

SpecLoop == InitLoop /\ [][NextLoop]_vars

\* ------------------------------------------------------------------------
\* The upload pipeline
\* ------------------------------------------------------------------------
UploadNames == {<<"a", ".", "x", "8", "3">>, <<"b", ".", "D", "8", "3">>, <<"c", ".", "t", "x", "t">>, <<"g", "a", "e", "b">>}

UploadContents ==
  { TextContent(<<<<"1", " ", "W", "a", "n", "d", " ", "5", " ", "m">>>>, {}),
    MarkupContent(RootOf("DA83", "name", CategoriesOf("numbered", "bare", 1, 1, FALSE)), TRUE) }

Init ==
  /\ content = TextContent(<<>>, {})
  /\ fileName = <<>>
  /\ result = NotCalled
  /\ again = NotCalled
  /\ loop = NotEntered
  /\ InitUpload

\* FileUpload.handleFile for a new File, up to the await of the read
handleFile(name, text) ==
  LET file == [id |-> nextFile, name |-> name, content |-> text]
      newFile == [file |-> file, name |-> name, status |-> "uploading",
                  gaebData |-> None, error |-> None]
      appended == Append(uploadedFiles, newFile)
      started == processFileStart(file)
  IN  /\ nextFile <= MaxFiles
      /\ nextFile' = nextFile + 1
      /\ IF fileExtension(name) \notin validExtensions
         THEN /\ alerts' = alerts + 1
              /\ UNCHANGED <<uploadedFiles, reading, hookProcessedFiles, isProcessing, error,
                             processedFiles>>
         ELSE /\ uploadedFiles' =
                   IF started.suspended
                   THEN updateEntry(appended, file, "processing", None, None)
                   ELSE updateEntry(appended, file, "error", None, started.error)
              /\ reading' = IF started.suspended THEN reading \cup {file} ELSE reading
              /\ isProcessing' = started.isProcessing
              /\ error' = started.error
              /\ UNCHANGED <<alerts, hookProcessedFiles, processedFiles>>
      /\ UNCHANGED <<parseVars, workbook, clock>>

\* handleFileRest that puts the entry of a processed file back to 'uploading'
handleFileRestReopening(file, rest) ==
  /\ hookProcessedFiles' = rest.processedFiles
  /\ error' = rest.error
  /\ isProcessing' = FALSE
  /\ uploadedFiles' =
       IF IsSome(rest.returned)
       THEN updateEntry(uploadedFiles, file, "uploading", rest.returned, None)
       ELSE updateEntry(uploadedFiles, file, "error", None, rest.error)
  /\ processedFiles' =
       IF IsSome(rest.returned)
       THEN handleFileProcessed(processedFiles, ValueOf(rest.returned))
       ELSE processedFiles

\* reader.onload for a suspended file: processFile resumes, parses and
\* returns; handleFile resumes, completes the entry and calls onFileProcessed
handleFileRest(file, rest) ==
  /\ hookProcessedFiles' = rest.processedFiles
  /\ error' = rest.error
  /\ isProcessing' = FALSE
  /\ uploadedFiles' =
       IF IsSome(rest.returned)
       THEN updateEntry(uploadedFiles, file, "completed", rest.returned, None)
       ELSE updateEntry(uploadedFiles, file, "error", None, rest.error)
  /\ processedFiles' =
       IF IsSome(rest.returned)
       THEN handleFileProcessed(processedFiles, ValueOf(rest.returned))
       ELSE processedFiles

onload(file) ==
  /\ file \in reading
  /\ reading' = reading \ {file}
  /\ handleFileRest(file, processFileRest(file, hookProcessedFiles, error, clock))
  /\ UNCHANGED <<parseVars, workbook, clock, nextFile, alerts>>

\* reader.onerror for a suspended file: the read rejects, processFile records
\* the error and rethrows, handleFile marks the entry
onerror(file) ==
  /\ file \in reading
  /\ reading' = reading \ {file}
  /\ error' = Some("Failed to read file")
  /\ isProcessing' = FALSE
  /\ uploadedFiles' = updateEntry(uploadedFiles, file, "error", None, Some("Failed to read file"))
  /\ UNCHANGED <<parseVars, workbook, clock, nextFile, alerts, hookProcessedFiles, processedFiles>>

\* FileUpload.removeFile, offered for every entry
removeFile(fileToRemove) ==
  /\ \E i \in DOMAIN uploadedFiles : uploadedFiles[i].file = fileToRemove
  /\ uploadedFiles' = SelectSeq(uploadedFiles, LAMBDA f : f.file # fileToRemove)
  /\ UNCHANGED <<parseVars, workbook, clock, nextFile, alerts, reading, hookProcessedFiles,
                 isProcessing, error, processedFiles>>

\* Home.clearFiles, offered while the published list is not empty
clearFiles ==
  /\ Len(processedFiles) > 0
  /\ processedFiles' = <<>>
  /\ UNCHANGED <<parseVars, workbook, clock, nextFile, alerts, uploadedFiles, reading,
                 hookProcessedFiles, isProcessing, error>>

Files == {f.file : f \in Range(uploadedFiles)} \cup reading

Next ==
  \/ \E name \in UploadNames, text \in UploadContents : handleFile(name, text)
  \/ \E file \in reading : onload(file)
  \/ \E file \in reading : onerror(file)
  \/ \E file \in Files : removeFile(file)
  \/ clearFiles
  \/ Tick

Spec == Init /\ [][Next]_vars

\* ------------------------------------------------------------------------
\* A batch: accepted files with pairwise distinct names, every read succeeds
\* ------------------------------------------------------------------------
BatchNames == {<<"a", ".", "x", "8", "3">>, <<"b", ".", "D", "8", "3">>, <<"c", ".", "g", "a", "e", "b">>, <<"d", ".", "p", "8", "3">>}

handleDrop(name, text) ==
  /\ \A f \in Files : f.name # name
  /\ handleFile(name, text)

NextBatch ==
  \/ \E name \in BatchNames, text \in UploadContents : handleDrop(name, text)
  \/ \E file \in reading : onload(file)
  \/ Tick

SpecBatch == Init /\ [][NextBatch]_vars

\* ------------------------------------------------------------------------
\* Upload and export: files are uploaded, read and published, and the
\* published documents are exported to a workbook
\* ------------------------------------------------------------------------
ExportNames ==
  { <<"a", ".", "x", "8", "3">>,
    <<"l", "v", ":", "1", ".", "d", "8", "3">>,
    <<"l", "e", "i", "s", "t", "u", "n", "g", "s", "v", "e", "r", "z", "e", "i", "c", "h", "n",
      "i", "s", "-", "r", "o", "h", "b", "a", "u", ".", "x", "8", "3">>,
    <<"l", "e", "i", "s", "t", "u", "n", "g", "s", "v", "e", "r", "z", "e", "i", "c", "h", "n",
      "i", "s", "-", "r", "o", "h", "b", "a", "u", "-", "h", "a", "u", "s", "-", "2",
      ".", "x", "8", "3">> }

ExportContents ==
  UploadContents
  \cup { MarkupContent(RootOf("DA83", "name", CategoriesOf("numbered", "full", MaxCats, 1, FALSE)),
                       TRUE) }

\* ExportComponent.handleExport with the export format 'excel', offered while
\* the published list is not empty
handleExport(includeDescription) ==
  /\ Len(processedFiles) > 0
  /\ workbook' = exportToExcel(processedFiles, includeDescription, W_GAEB_Export, clock)
  /\ UNCHANGED <<parseVars, clock, nextFile, alerts, uploadedFiles, reading,
                 hookProcessedFiles, isProcessing, error, processedFiles>>

NextExport ==
  \/ \E name \in ExportNames, text \in ExportContents : handleFile(name, text)
  \/ \E file \in reading : onload(file)
  \/ clearFiles
  \/ \E includeDescription \in BOOLEAN : handleExport(includeDescription)
  \/ Tick

SpecExport == Init /\ [][NextExport]_vars

\* ------------------------------------------------------------------------
\* Properties of GAEBParser.parse (SpecParse)
\* ------------------------------------------------------------------------
Returned == result.kind = "value"

\* the positions of the returned document
positionsReturned == IF Returned THEN result.value.positions ELSE <<>>

\* the content goes to parseXMLGAEB and its try block is left for the catch
FallsBack == IsXMLContent(content) /\ XMLTry(content, Handle(content.dom.root, <<>>)).failed

\* the content with no failure inside parsePosition
Faultless == [content EXCEPT !.throwsAt = {}]

\* C1: in every document parse returns, on the structured path, the heuristic
\* path and the fallback alike, totalPositions equals the length of positions
C1_TotalPositionsIsLength ==
  Returned => result.value.totalPositions = Len(result.value.positions)

\* a fallback document with positions, from a text with more lines than positions
C1_Witness ==
  /\ Returned
  /\ FallsBack
  /\ Len(result.value.positions) >= 1
  /\ Len(result.value.positions) # Len(content.text)

\* C3: parse returns a document and never raises; a failure at a single line
\* costs positions, it does not surface as an error
C3_ParseNeverRaises ==
  result.kind # "none" =>
    /\ result.kind = "value"
    /\ ~IsXMLContent(content) =>
         Len(result.value.positions)
           <= Len(parseTextGAEB(Faultless, fileName, clock).value.positions)

\* parse returned although parsePosition failed at a line, which is missing
\* from the positions
C3_Witness ==
  /\ Returned
  /\ ~IsXMLContent(content)
  /\ content.throwsAt # {}
  /\ Len(result.value.positions)
       < Len(parseTextGAEB(Faultless, fileName, clock).value.positions)

\* the fields of a document the fallback is compared in
SameDocument(a, b) ==
  /\ a.header = b.header
  /\ a.positions = b.positions
  /\ a.rawContent = b.rawContent
  /\ a.totalPositions = b.totalPositions
  /\ a.fileName = b.fileName

\* C4: when the text selected for the structured path fails as markup (a
\* parser error node, or an exception while the tree is built or walked),
\* parse returns exactly what the heuristic parser returns for the same text
\* and file name
C4_FallbackIsHeuristic ==
  (Returned /\ FallsBack) =>
    SameDocument(result.value,
                 parseTextGAEB(content, fileName, result.value.processedAt).value)

\* a fallback for a text with a parser error node, whose format label is not
\* the one the structured path derives
C4_Witness ==
  /\ Returned
  /\ IsXMLContent(content)
  /\ content.dom.kind = "document"
  /\ IsSome(querySelector(Handle(content.dom.root, <<>>), <<T_parsererror>>))
  /\ result.value.header.format # Some(detectXMLGAEBFormat(content))
  /\ Len(result.value.positions) >= 1

\* the currency units, in lower case
CurrencyUnits == {W_Euro, <<"e", "u", "r">>, <<"d", "m">>}

\* C8: no node of type 'position' has a unit that is a currency code
\* (EUR, the euro sign, DM) in any letter case
C8_NoCurrencyUnit ==
  \A k \in DOMAIN positionsReturned :
    (positionsReturned[k].type = "position" /\ IsSome(positionsReturned[k].unit))
      => toLowerCase(ValueOf(positionsReturned[k].unit)) \notin CurrencyUnits

\* C9: the ids of the nodes of a document are pairwise distinct
C9_UniqueIds ==
  \A i, j \in DOMAIN positionsReturned :
    i # j => positionsReturned[i].id # positionsReturned[j].id

\* C10: every node of a returned document has a non-empty title
C10_TitleNonEmpty ==
  \A k \in DOMAIN positionsReturned : positionsReturned[k].title # <<>>

\* a heuristic document with a node whose title is the placeholder
\* 'Position <n>'
C10_Witness ==
  /\ Returned
  /\ ~IsXMLContent(content)
  /\ \E k \in DOMAIN positionsReturned : startsWith(positionsReturned[k].title, W_Position)

\* the document comes from the structured path
Structured == Returned /\ IsXMLContent(content) /\ ~FallsBack

\* no element of the tree raises when it is used
NoneThrows(handles) == \A i \in DOMAIN handles : ~handles[i].node.throws

Faultfree == NoneThrows(Descendants(Handle(content.dom.root, <<>>)))

\* the index of the last node of type 'title' before node k, or 0
LastTitleBefore(ps, k) ==
  LET T == {i \in 1..(k - 1) : ps[i].type = "title"} IN
  IF T = {} THEN 0 ELSE CHOOSE i \in T : \A j \in T : j <= i

\* the label 'c.i' of node k as the i-th item after the category node q
ItemLabel(ps, k, q) == ValueOf(ps[q].positionNumber) \o <<".">> \o DecimalString(k - q)

\* C11: on the structured path the i-th item of a category with ordinal c has
\* positionNumber 'c.i', whatever the RNoPart attribute of the item is
C11_HierarchicalNumbers ==
  (Structured /\ Faultfree) =>
    \A k \in DOMAIN positionsReturned :
      positionsReturned[k].type = "position" =>
        /\ LastTitleBefore(positionsReturned, k) # 0
        /\ positionsReturned[k].positionNumber
             = Some(ItemLabel(positionsReturned, k, LastTitleBefore(positionsReturned, k)))

\* the example line "1.2 Mauerwerk 20m² 15,50€"
MauerwerkLine ==
  <<"1", ".", "2", " ", "M", "a", "u", "e", "r", "w", "e", "r", "k", " ", "2", "0", "m", Sup2,
    " ", "1", "5", ",", "5", "0", EuroSign>>

\* C12: the heuristic parser makes of the line "1.2 Mauerwerk 20m² 15,50€" one
\* node with type 'position', positionNumber '1.2', unit m², quantity 20,
\* unitPrice 15.50 and totalPrice 20 x 15.50
C12_MauerwerkExample ==
  (Returned /\ content.text = <<MauerwerkLine>>) =>
    /\ Len(positionsReturned) = 1
    /\ positionsReturned[1].type = "position"
    /\ positionsReturned[1].positionNumber = Some(<<"1", ".", "2">>)
    /\ positionsReturned[1].unit = Some(W_m2)
    /\ positionsReturned[1].quantity = Some(Number(20, 1))
    /\ positionsReturned[1].unitPrice = Some(Number(1550, 100))
    /\ positionsReturned[1].totalPrice = Some(Times(Number(20, 1), Number(1550, 100)))

\* the document comes from the heuristic path, for a text of one line
OneLine == Returned /\ ~IsXMLContent(content) /\ Len(content.text) = 1

\* line is an integer, white space and a phrase of upper-case words
IntegerThenCapitals(line) ==
  \E d \in 1..(Len(line) - 2) : \E w \in (d + 1)..(Len(line) - 1) :
    /\ \A k \in 1..d : line[k] \in DigitChars
    /\ \A k \in (d + 1)..w : line[k] = " "
    /\ \A k \in (w + 1)..Len(line) : line[k] \in UpperUml \cup {" "}
    /\ line[w + 1] \in UpperUml
    /\ line[Len(line)] \in UpperUml

\* the units and the currency codes, in lower case
UnitWords == {toLowerCase(ParseUnits[i]) : i \in DOMAIN ParseUnits}

\* line[i..j] is a word of line: it has no space and is not part of a longer one
IsWordOf(line, i, j) ==
  /\ \A k \in i..j : line[k] # " "
  /\ (i = 1 \/ line[i - 1] = " ")
  /\ (j = Len(line) \/ line[j + 1] = " ")

\* no word of the line is a unit or a currency code, in any letter case
NoUnitOrCurrency(line) ==
  \A i \in DOMAIN line : \A j \in i..Len(line) :
    IsWordOf(line, i, j) => toLowerCase(SubSeq(line, i, j)) \notin UnitWords

\* C13: on the heuristic path a line that is an integer followed by an
\* all-uppercase phrase, with no unit and no currency, becomes a node of type
\* 'title'
C13_CapitalsAreTitle ==
  (OneLine /\ IntegerThenCapitals(content.text[1]) /\ NoUnitOrCurrency(content.text[1])) =>
    /\ Len(positionsReturned) = 1
    /\ positionsReturned[1].type = "title"

\* C14: two calls of parse with the same text and file name return documents
\* with equal header, positions, rawContent, fileName and totalPositions;
\* processedAt alone may differ
C14_Deterministic ==
  (Returned /\ again # NotCalled) =>
    /\ again.kind = "value"
    /\ SameDocument(result.value, again.value)

\* two calls at different times, with positions, whose documents differ in
\* processedAt
C14_Witness ==
  /\ Returned
  /\ again.kind = "value"
  /\ result.value.processedAt # again.value.processedAt
  /\ Len(result.value.positions) >= 2

\* the text is well-formed markup whose tree has no BoQ element
WithoutBoQ ==
  /\ IsXMLContent(content)
  /\ content.dom.kind = "document"
  /\ Faultfree
  /\ ~IsSome(querySelector(Handle(content.dom.root, <<>>), <<T_parsererror>>))
  /\ ~IsSome(querySelector(Handle(content.dom.root, <<>>), <<T_BoQ>>))

\* C17: for well-formed markup without a BoQ element, parse returns exactly
\* what the heuristic parser returns for the same text and file name
C17_NoBoQIsHeuristic ==
  (Returned /\ WithoutBoQ) =>
    SameDocument(result.value,
                 parseTextGAEB(content, fileName, result.value.processedAt).value)

\* the type the rules give, first match first, with a currency amount that
\* counts as present whatever its value
TypeByRules(line) ==
  IF IsSectionTitle(trim(line)) THEN "title"
  ELSE IF ~IsSome(ExtractPositionNumber(line)) /\ Len(trim(line)) > 80
          /\ ~IsSome(ExtractCurrencyAmount(line)) THEN "text"
  ELSE IF IsSome(ExtractCurrencyAmount(line)) \/ IsSome(ExtractUnit(line)) THEN "position"
  ELSE IF WordAltStart(trim(line), SummaryTerms) # 0 THEN "calculation"
  ELSE "position"

\* C19: the type of a node of the heuristic path is given by the first rule
\* that matches: (1) integer and all-uppercase phrase, 'title'; (2) no position
\* number, more than 80 characters and no currency amount, 'text'; (3) a
\* currency amount of any value, zero included, or a unit, 'position'; (4) a
\* summary keyword, 'calculation'; (5) otherwise 'position'
C19_TypeByFirstRule ==
  (OneLine /\ Len(positionsReturned) = 1) =>
    positionsReturned[1].type = TypeByRules(content.text[1])

\* quantity, unitPrice and totalPrice by the cases (a) to (d), with a currency
\* amount C that counts as present whatever its value
PricingByCases(N, C) ==
  LET nothing == [quantity |-> None, unitPrice |-> None, totalPrice |-> None] IN
  IF Len(N) = 1 /\ IsSome(C)
  THEN [quantity |-> Some(N[1]), unitPrice |-> C, totalPrice |-> Some(Times(N[1], ValueOf(C)))]
  ELSE IF Len(N) >= 2 /\ IsSome(C)
  THEN [quantity |-> Some(N[1]), unitPrice |-> C, totalPrice |-> Some(N[2])]
  ELSE IF Len(N) >= 2
  THEN IF Greater(MathMax(Tail(N)), One)
       THEN [quantity |-> Some(N[1]), unitPrice |-> Some(Divide(MathMax(Tail(N)), N[1])),
             totalPrice |-> Some(MathMax(Tail(N)))]
       ELSE [nothing EXCEPT !.quantity = Some(N[1])]
  ELSE IF Len(N) = 1 THEN [nothing EXCEPT !.quantity = Some(N[1])]
  ELSE nothing

\* quantity, unitPrice and totalPrice of a node
PricingOf(position) ==
  [quantity |-> position.quantity, unitPrice |-> position.unitPrice,
   totalPrice |-> position.totalPrice]

\* C20: for a node of type 'position' of the heuristic path, with N the plain
\* numbers of its line and C its currency amount of any value: (a) one number
\* and C give quantity N[1], unitPrice C, totalPrice quantity x unitPrice;
\* (b) two or more numbers and C give quantity N[1], unitPrice C, totalPrice
\* N[2]; (c) two or more numbers and no C give quantity N[1] and, when the
\* maximum of the others exceeds 1, that maximum as totalPrice and
\* totalPrice / quantity as unitPrice; (d) one number and no C give the
\* quantity only; no number leaves the three undefined
C20_PricingByCases ==
  (OneLine /\ Len(positionsReturned) = 1 /\ positionsReturned[1].type = "position") =>
    PricingOf(positionsReturned[1])
      = PricingByCases(ExtractNumbers(content.text[1]), ExtractCurrencyAmount(content.text[1]))

\* the number of white-space characters a line of the text starts with
LeadingColumns(line) == SkipWhile(line, 1, SpaceChars) - 1

\* the number of dots of the position number of a node, 0 without one
DotsOf(position) ==
  IF IsSome(position.positionNumber) THEN CountDots(ValueOf(position.positionNumber)) ELSE 0

\* the larger of two natural numbers
Larger(a, b) == IF a >= b THEN a ELSE b

\* C21: a node the heuristic path emits for a line of the text with s leading
\* white-space columns and d dots in its position number has level
\* max(floor(s / 4), d)
C21_LevelByIndentAndDots ==
  (OneLine /\ Len(positionsReturned) = 1) =>
    positionsReturned[1].level
      = Larger(LeadingColumns(content.text[1]) \div 4, DotsOf(positionsReturned[1]))

\* the document comes from the heuristic path and no line fails in parsePosition
Heuristic == Returned /\ ~IsXMLContent(content) /\ content.throwsAt = {}

\* the indices of the lines that look like a position, in order
PositionLines(lines) ==
  SelectSeq([i \in 1..Len(lines) |-> i], LAMBDA i : looksLikePosition(lines[i]))

\* line i can serve as a description
Describes(lines, i) ==
  i <= Len(lines) /\ ~looksLikePosition(lines[i]) /\ Len(trim(lines[i])) > 10

\* the description of the position of line i: the first of the two lines
\* after it that can serve as one
DescriptionAfter(lines, i) ==
  IF Describes(lines, i + 1) THEN Some(trim(lines[i + 1]))
  ELSE IF Describes(lines, i + 2) THEN Some(trim(lines[i + 2]))
  ELSE None

\* C22: every line that looks like a position gets its node, also a line the
\* look-ahead of an earlier position has passed over, and the description of
\* the node of line i is the first of lines i+1 and i+2 that does not look
\* like a position and is longer than 10 characters, undefined when there is
\* none
C22_DescriptionLookAhead ==
  Heuristic =>
    /\ Len(positionsReturned) = Len(PositionLines(TextLines(content)))
    /\ \A k \in DOMAIN positionsReturned :
         positionsReturned[k].description
           = DescriptionAfter(TextLines(content), PositionLines(TextLines(content))[k])

\* two positions in a row share the description of the line that follows them
C22_Witness ==
  /\ Heuristic
  /\ Len(positionsReturned) = 2
  /\ PositionLines(TextLines(content)) = <<1, 2>>
  /\ IsSome(positionsReturned[1].description)
  /\ positionsReturned[1].description = positionsReturned[2].description

\* the BoQCtgy elements below the BoQ element, in document order
CategoryElements ==
  LET boq == querySelector(Handle(content.dom.root, <<>>), <<T_BoQ>>) IN
  IF IsSome(boq) THEN querySelectorAll(ValueOf(boq), <<T_BoQCtgy>>) ELSE <<>>

\* the nodes of type 'title' of the returned document, in order
TitlesReturned == SelectSeq(positionsReturned, LAMBDA p : p.type = "title")

\* s is a non-empty string of decimal digits
IsInteger(s) == s # <<>> /\ \A i \in DOMAIN s : s[i] \in DigitChars

\* the ordinal of the k-th category: its RNoPart when that is an integer, else k
OrdinalOf(category, k) ==
  IF IsSome(getAttribute(category, "RNoPart"))
     /\ IsInteger(ValueOf(getAttribute(category, "RNoPart")))
  THEN DigitsValue(ValueOf(getAttribute(category, "RNoPart")))
  ELSE k

\* C23: on the structured path the title node of the k-th category has level 0
\* and as positionNumber the integer of the category's RNoPart attribute when
\* that is present and an integer, and k otherwise
C23_CategoryOrdinal ==
  (Structured /\ Faultfree) =>
    /\ Len(TitlesReturned) = Len(CategoryElements)
    /\ \A k \in DOMAIN TitlesReturned :
         /\ TitlesReturned[k].level = 0
         /\ TitlesReturned[k].positionNumber
              = Some(DecimalString(OrdinalOf(CategoryElements[k], k)))

\* the Item elements below the categories from category k on, category by
\* category in document order
RECURSIVE ItemElementsFrom(_, _)
ItemElementsFrom(categories, k) ==
  IF k > Len(categories) THEN <<>>
  ELSE querySelectorAll(categories[k], <<T_Item>>) \o ItemElementsFrom(categories, k + 1)

ItemElements == ItemElementsFrom(CategoryElements, 1)

\* the nodes of type 'position' of the returned document, in order
ItemsReturned == SelectSeq(positionsReturned, LAMBDA p : p.type = "position")

\* the Qty element of an item is missing, empty or not a number
WithoutQuantity(item) ==
  LET qty == querySelector(item, <<T_Qty>>) IN
  \/ ~IsSome(qty)
  \/ textContent(ValueOf(qty).node) = <<>>
  \/ IsNaN(parseFloat(textContent(ValueOf(qty).node)))

\* C24: on the structured path every item yields its node, and the node of an
\* item whose Qty element is missing, empty or not a number has no quantity
C24_QuantityUndefined ==
  (Structured /\ Faultfree) =>
    /\ Len(ItemsReturned) = Len(ItemElements)
    /\ \A k \in DOMAIN ItemsReturned :
         WithoutQuantity(ItemElements[k]) => ItemsReturned[k].quantity = None

\* the trimmed texts of the Project, Name and Title elements below the Award
\* element, in this order, without the empty ones
ProjectCandidates ==
  LET award == querySelector(Handle(content.dom.root, <<>>), <<T_Award>>)
      found == IF IsSome(award)
               THEN <<querySelector(ValueOf(award), <<T_Project>>),
                      querySelector(ValueOf(award), <<T_Name>>),
                      querySelector(ValueOf(award), <<T_Title>>)>>
               ELSE <<>>
      texts == [i \in DOMAIN found |->
                  IF IsSome(found[i]) THEN trim(textContent(ValueOf(found[i]).node)) ELSE <<>>]
  IN  SelectSeq(texts, LAMBDA t : t # <<>>)

\* C25: on the structured path header.project is the trimmed text of the first
\* of the Project, Name and Title elements of the award section whose text is
\* not empty
C25_FirstNonEmptyProject ==
  (Structured /\ Faultfree /\ ProjectCandidates # <<>>) =>
    result.value.header.project = Some(ProjectCandidates[1])

\* the Item elements below the BoQ element, each once, in document order
AllItemElements ==
  LET boq == querySelector(Handle(content.dom.root, <<>>), <<T_BoQ>>) IN
  IF IsSome(boq) THEN querySelectorAll(ValueOf(boq), <<T_Item>>) ELSE <<>>

\* C27: on the structured path the document has one title node for every
\* BoQCtgy element and no more position nodes than the source has Item
\* elements, also when a BoQCtgy lies inside another
C27_OneNodePerElement ==
  (Structured /\ Faultfree) =>
    /\ Len(TitlesReturned) = Len(CategoryElements)
    /\ Len(ItemsReturned) <= Len(AllItemElements)

\* ------------------------------------------------------------------------
\* Properties of the upload pipeline (Spec, SpecBatch)
\* ------------------------------------------------------------------------
\* the indices of the documents of a list with a file name
Named(docs, name) == {i \in DOMAIN docs : docs[i].fileName = name}

NoDuplicateNames(docs) == \A i \in DOMAIN docs : Named(docs, docs[i].fileName) = {i}

\* a step that publishes: the list changes and is not cleared
Publishes(before, after) == after # before /\ after # <<>>

\* a publishing step appends the document, removes the entry of its name and
\* keeps the others in their order
PublishedOnce(before, after) ==
  Publishes(before, after) =>
    /\ SelectSeq(before, LAMBDA d : d.fileName # after[Len(after)].fileName)
         = SubSeq(after, 1, Len(after) - 1)
    /\ Named(before, after[Len(after)].fileName) # {} => Len(after) <= Len(before)

\* C2: the published list holds at most one document per file name at all
\* times; publishing a document whose name is present replaces the entry and
\* the list does not grow; clearing empties the list
C2_Step ==
  /\ NoDuplicateNames(processedFiles')
  /\ NoDuplicateNames(hookProcessedFiles')
  /\ PublishedOnce(processedFiles, processedFiles')
  /\ PublishedOnce(hookProcessedFiles, hookProcessedFiles')

C2_OneDocumentPerName == [][C2_Step]_vars

\* a file name uploaded twice and completed twice, with different documents,
\* and the published list holds the second document alone
C2_Witness ==
  /\ Len(uploadedFiles) = 2
  /\ uploadedFiles[1].name = uploadedFiles[2].name
  /\ uploadedFiles[1].status = "completed"
  /\ uploadedFiles[2].status = "completed"
  /\ uploadedFiles[1].gaebData # uploadedFiles[2].gaebData
  /\ processedFiles = <<ValueOf(uploadedFiles[2].gaebData)>>

\* the accepted extensions as the upload area announces them
AcceptedSuffixes ==
  {<<".", "g", "a", "e", "b">>, <<".", "d", "8", "3">>, <<".", "p", "8", "3">>,
   <<".", "x", "8", "3">>}

\* name ends, ignoring case, with an accepted extension
HasAcceptedSuffix(name) ==
  \E ext \in AcceptedSuffixes :
    /\ Len(name) >= Len(ext)
    /\ toLowerCase(SubSeq(name, Len(name) - Len(ext) + 1, Len(name))) = ext

\* C5: a file whose name does not end, ignoring case, with .gaeb, .d83, .p83
\* or .x83 is rejected before any read: no upload entry is created, nothing
\* is read, no document is published
C5_Step ==
  /\ \A name \in UploadNames, text \in UploadContents :
       (handleFile(name, text) /\ ~HasAcceptedSuffix(name)) =>
          /\ alerts' = alerts + 1
          /\ UNCHANGED <<uploadedFiles, reading, hookProcessedFiles, processedFiles>>
  /\ \A i \in DOMAIN uploadedFiles' : HasAcceptedSuffix(uploadedFiles'[i].name)
  /\ \A file \in reading' : HasAcceptedSuffix(file.name)
  /\ \A i \in DOMAIN processedFiles' : HasAcceptedSuffix(processedFiles'[i].fileName)

C5_RejectedBeforeRead == [][C5_Step]_vars

\* files were rejected after a file was accepted and published, and the
\* entries and the documents are those of the accepted file
C5_Witness ==
  /\ alerts >= 1
  /\ nextFile = Len(uploadedFiles) + alerts + 1
  /\ Len(uploadedFiles) = 1
  /\ Len(processedFiles) = 1
  /\ reading = {}

\* the entries of a file
EntriesOf(entries, file) == {i \in DOMAIN entries : entries[i].file = file}

\* C6: when the read of a file fails, its entry ends in status 'error' and no
\* document is published for it; the entries of the other files and the
\* published list are as before
C6_Step ==
  /\ \A file \in reading :
       onerror(file) =>
         /\ file \notin reading'
         /\ processedFiles' = processedFiles
         /\ hookProcessedFiles' = hookProcessedFiles
         /\ Len(uploadedFiles') = Len(uploadedFiles)
         /\ \A i \in DOMAIN uploadedFiles :
              IF uploadedFiles[i].file = file
              THEN /\ uploadedFiles'[i].status = "error"
                   /\ uploadedFiles'[i].gaebData = None
              ELSE uploadedFiles'[i] = uploadedFiles[i]
  /\ \A i \in DOMAIN uploadedFiles :
       uploadedFiles[i].status = "error" =>
         /\ uploadedFiles[i].file \notin reading
         /\ uploadedFiles[i].gaebData = None
         /\ \A j \in EntriesOf(uploadedFiles', uploadedFiles[i].file) :
              uploadedFiles'[j] = uploadedFiles[i]

C6_ReadFailure == [][C6_Step]_vars

\* the read of the first file failed after the second file was published:
\* the first entry is in error, the second is completed and its document is
\* the published list
C6_Witness ==
  /\ Len(uploadedFiles) = 2
  /\ uploadedFiles[1].status = "error"
  /\ uploadedFiles[1].error = Some("Failed to read file")
  /\ uploadedFiles[2].status = "completed"
  /\ processedFiles = <<ValueOf(uploadedFiles[2].gaebData)>>

\* C7: for files with pairwise distinct accepted names processed at the same
\* time, whatever the order in which they complete, every completed file has
\* exactly one document in the published list, and once all have completed
\* the list holds exactly one document per file
C7_OneDocumentPerFile ==
  /\ \A i \in DOMAIN uploadedFiles :
       IF uploadedFiles[i].status = "completed"
       THEN /\ Cardinality(Named(processedFiles, uploadedFiles[i].name)) = 1
            /\ \E j \in DOMAIN processedFiles :
                 processedFiles[j] = ValueOf(uploadedFiles[i].gaebData)
       ELSE /\ uploadedFiles[i].status = "processing"
            /\ Named(processedFiles, uploadedFiles[i].name) = {}
  /\ Len(processedFiles) <= Len(uploadedFiles)
  /\ reading = {} => Len(processedFiles) = Len(uploadedFiles)

\* all the files of a batch have completed, the second before the first
C7_Witness ==
  /\ Len(uploadedFiles) >= 2
  /\ reading = {}
  /\ Len(processedFiles) = Len(uploadedFiles)
  /\ processedFiles[1].fileName = uploadedFiles[2].name
  /\ processedFiles[2].fileName = uploadedFiles[1].name

\* ------------------------------------------------------------------------
\* Properties of the export (SpecExport)
\* ------------------------------------------------------------------------
Exported == workbook # NotExported

\* the number of documents of the written workbook
exportedCount == Len(workbook.sheets) - 1

\* the rows of the written summary sheet
summaryData == workbook.sheets[1].data

\* the sum of column c over the per-document rows of the summary sheet
RECURSIVE ColumnSum(_, _, _)
ColumnSum(data, n, c) == IF n = 0 THEN 0 ELSE ColumnSum(data, n - 1, c) + data[3 + n][c]

\* C15: in the written summary sheet, with more than one document the last
\* row is the aggregate row and its category, item and total-positions counts
\* are the sums of the per-document rows; with exactly one document the sheet
\* ends with that document's row
C15_SummaryTotals ==
  Exported =>
    IF exportedCount > 1
    THEN /\ Len(summaryData) = 3 + exportedCount + 2
         /\ summaryData[Len(summaryData)][1] = "GESAMT"
         /\ \A c \in 3..5 :
              summaryData[Len(summaryData)][c] = ColumnSum(summaryData, exportedCount, c)
    ELSE Len(summaryData) = 3 + exportedCount

C15_Witness ==
  /\ Exported
  /\ exportedCount > 1
  /\ summaryData[Len(summaryData)][3] > summaryData[4][3]
  /\ summaryData[Len(summaryData)][4] > summaryData[4][4]

\* C16: every per-document sheet name of the written workbook has at most 31
\* characters
C16_SheetNamesFit ==
  Exported =>
    \A i \in 2..Len(workbook.sheets) : Len(workbook.sheets[i].name) <= SheetNameLimit


\* ------------------------------------------------------------------------
\* Properties of the loop of parseTextGAEB (SpecLoop)
\* ------------------------------------------------------------------------
InLoop == loop.at # "before"

\* the lines the loop has gone through
LinesDone == SubSeq(TextLines(content), 1, loop.i)

\* the document returned is the one parseTextGAEB computes
LoopAgrees ==
  loop.at = "returned" => result = parseTextGAEB(content, fileName, result.value.processedAt)

\* C18: the mode of the heuristic parser is 'header' until the first line
\* that looks like a position has been gone through and 'positions' from
\* then on; no iteration takes it from 'positions' back to 'header'
C18_ModeMonotonic ==
  /\ [](InLoop =>
          (loop.st.currentSection = "positions"
             <=> \E k \in DOMAIN LinesDone : looksLikePosition(LinesDone[k])))
  /\ [][(InLoop /\ loop.st.currentSection = "positions")
          => loop'.st.currentSection = "positions"]_vars

\* a line with a header keyword that does not look like a position has been
\* gone through after the switch
C18_Witness ==
  /\ InLoop
  /\ loop.i >= 2
  /\ looksLikePosition(LinesDone[1])
  /\ HeaderField(LinesDone[loop.i]) # "none"
  /\ ~looksLikePosition(LinesDone[loop.i])
  /\ loop.st.currentSection = "positions"

\* C26: isProcessing is true in every state in which some processFile call
\* has started and has neither returned nor thrown
C26_ProcessingWhileInFlight == reading # {} => isProcessing

\* line j is the line the look-ahead of the position of line i takes
TakenBy(lines, i, j) ==
  /\ i >= 1
  /\ looksLikePosition(lines[i])
  /\ Describes(lines, j)
  /\ j = i + 1 \/ (j = i + 2 /\ ~Describes(lines, i + 1))

\* line j is taken as a description by one of the two lines before it
Taken(lines, j) == TakenBy(lines, j - 1, j) \/ TakenBy(lines, j - 2, j)

\* C28: an iteration of the heuristic parser emits a node only for a line that
\* looks like a position, and never for a line that the look-ahead of an
\* earlier position has taken as its description
C28_DescriptionNeverPosition ==
  [][(loop.at = "loop" /\ loop'.at = "loop"
        /\ Len(loop'.st.positions) > Len(loop.st.positions))
       => /\ looksLikePosition(TextLines(content)[loop'.i])
          /\ ~Taken(TextLines(content), loop'.i)]_vars

\* the loop has gone through a line that the last node has as its description
C28_Witness ==
  /\ InLoop
  /\ loop.i >= 2
  /\ Taken(TextLines(content), loop.i)
  /\ Len(loop.st.positions) >= 1
  /\ loop.st.positions[Len(loop.st.positions)].description = Some(trim(LinesDone[loop.i]))

\* C29: once the mode of the heuristic parser is 'positions', no iteration
\* changes a field of the header, whatever keywords its line contains
C29_HeaderFrozen ==
  [][(loop.at = "loop" /\ loop'.at = "loop" /\ loop.st.currentSection = "positions")
       => loop'.st.header = loop.st.header]_vars

\* a line with a header keyword has been gone through in the mode 'positions'
\* and the field of that keyword is still unset
C29_Witness ==
  /\ InLoop
  /\ loop.i >= 2
  /\ looksLikePosition(LinesDone[1])
  /\ HeaderField(LinesDone[loop.i]) # "none"
  /\ loop.st.header[HeaderField(LinesDone[loop.i])] = None

\* the place of a status in the order uploading, processing, completed or error
StatusRank(status) ==
  CASE status = "uploading" -> 1
    [] status = "processing" -> 2
    [] status = "completed" -> 3
    [] status = "error" -> 3

\* the step from status a to status b moves forward or stays
Forward(a, b) ==
  IF a \in {"completed", "error"} THEN b = a ELSE StatusRank(b) >= StatusRank(a)

\* an entry of the file has status 'error' after the step and had not before
TurnsToError(file) ==
  /\ \E i \in EntriesOf(uploadedFiles', file) : uploadedFiles'[i].status = "error"
  /\ \A i \in EntriesOf(uploadedFiles, file) : uploadedFiles[i].status # "error"

\* C30: the status of an upload entry moves forward only along uploading,
\* processing, completed or error; completed and error are final; a document
\* is published only in a step in which a file's processing succeeds, and
\* never in a step in which an entry turns to error
C30_Step ==
  /\ \A i \in DOMAIN uploadedFiles : \A j \in DOMAIN uploadedFiles' :
       uploadedFiles[i].file = uploadedFiles'[j].file
         => Forward(uploadedFiles[i].status, uploadedFiles'[j].status)
  /\ Publishes(processedFiles, processedFiles') =>
       \E file \in reading \ reading' :
         /\ \A i \in EntriesOf(uploadedFiles, file) : uploadedFiles[i].status = "processing"
         /\ \A j \in EntriesOf(uploadedFiles', file) : uploadedFiles'[j].status = "completed"
  /\ (\E file \in Files : TurnsToError(file)) => processedFiles' = processedFiles

\* C30 over every step of the upload pipeline
C30_StatusForward == [][C30_Step]_vars

\* the first entry is completed and published, the second has ended in error
C30_Witness ==
  /\ Len(uploadedFiles) = 2
  /\ uploadedFiles[1].status = "completed"
  /\ uploadedFiles[2].status = "error"
  /\ reading = {}
  /\ processedFiles = <<ValueOf(uploadedFiles[1].gaebData)>>

====
